---- MODULE Spec2Model ----
(***************************************************************************)
(* Telemetry collection: the agent's delivery queue and transport          *)
(* (collector_v3/src/main.rs, collector_nouuid/src/sender.rs), the         *)
(* server's connection handler (server_v3/src/collector.rs) and its        *)
(* command store (server_v3/src/commands.rs).                              *)
(*                                                                         *)
(* One step of the model is one blocking call (connect, write_all, read,   *)
(* rx.recv) or one await point (socket read, insert, socket write)         *)
(* together with the straight-line code that follows it.                   *)
(***************************************************************************)
EXTENDS Integers, Sequences, FiniteSets, TLC

\* ---------------------------------------------------------------- bounds
MaxSamples == 3          \* samples the sampler emits
MaxConn == 2             \* connections the listener accepts
MaxFrames == 3           \* frames the recorded peers write
MaxAdds == 2             \* recorded add_command calls
MaxRuns == 2             \* times the agent's process is started
MaxTime == 1             \* seconds the clock advances

Agents == {1}             \* collector ids of the agents that run
Ids == {1, 2}             \* collector ids the server hears of
Peers == {1, 2}           \* connections of the recorded peers
Conns == 1..MaxConn

\* ------------------------------------------------------- program constants
MAGIC_NUMBER == 1234
VERSION_NUMBER == 1

\* The system clock, in whole seconds since the epoch began for the run.
VARIABLE now

\* unix_now(): the seconds of the system clock.
unix_now == now

NoCmd == [kind |-> "None", cid |-> 0, seq |-> 0]
NoFrame ==
    [magic |-> 0, version |-> 0, timestamp |-> 0, payload |-> NoCmd, crc |-> NoCmd]

SubmitData(a, n) == [kind |-> "SubmitData", cid |-> a, seq |-> n]
RequestWork(a) == [kind |-> "RequestWork", cid |-> a, seq |-> 0]

\* The frame encode_v1 builds: header constants, the timestamp it takes
\* from unix_now(), the payload, and the checksum, here the command it was
\* computed over (the bytes themselves are followed in the next section).
encode_v1(command) ==
    [magic |-> MAGIC_NUMBER, version |-> VERSION_NUMBER, timestamp |-> unix_now,
     payload |-> command, crc |-> command]

\* decode_v1: the asserts on magic, version and checksum, then the payload.
decode_ok(frame) ==
    /\ frame.magic = MAGIC_NUMBER
    /\ frame.version = VERSION_NUMBER
    /\ frame.crc = frame.payload
decode_v1(frame) == frame.payload

\* ------------------------------------------------- the frame, byte by byte
\* encode_v1 and decode_v1 on the bytes of the buffer. A command's fields are
\* numbers; a field's value that TLC's integers cannot hold is reported as
\* Huge.

Bytes == 0..255
Huge == -1

RECURSIVE XorBits(_, _, _)
XorBits(a, b, n) ==
    IF n = 0 THEN 0
    ELSE ((a + b) % 2) + 2 * XorBits(a \div 2, b \div 2, n - 1)

Xor4 == [a \in 0..15 |-> [b \in 0..15 |-> XorBits(a, b, 4)]]

Xor8(a, b) == 16 * Xor4[a \div 16][b \div 16] + Xor4[a % 16][b % 16]

\* A u32 as its four bytes, least significant first.
XorWord(x, y) ==
    <<Xor8(x[1], y[1]), Xor8(x[2], y[2]), Xor8(x[3], y[3]), Xor8(x[4], y[4])>>

Shr1(w) ==
    <<(w[1] \div 2) + 128 * (w[2] % 2), (w[2] \div 2) + 128 * (w[3] % 2),
      (w[3] \div 2) + 128 * (w[4] % 2), w[4] \div 2>>

\* crc32fast::hash: CRC-32 (IEEE), reflected polynomial EDB88320, initial
\* value and final xor FFFFFFFF, one table lookup per byte.
CrcPoly == <<32, 131, 184, 237>>

CrcBit(w) == IF w[1] % 2 = 1 THEN XorWord(Shr1(w), CrcPoly) ELSE Shr1(w)

CrcTable ==
    [n \in Bytes |->
        CrcBit(CrcBit(CrcBit(CrcBit(CrcBit(CrcBit(CrcBit(CrcBit(<<n, 0, 0, 0>>))))))))]

\* One byte: r is <<position, register>>, the register's four bytes least
\* significant first.
CrcByte(r, s) ==
    LET t == CrcTable[Xor8(r[2], s[r[1]])] IN
    <<r[1] + 1, Xor8(t[1], r[3]), Xor8(t[2], r[4]), Xor8(t[3], r[5]), t[4]>>

RECURSIVE CrcFold(_, _)
CrcFold(r, s) ==
    IF r[1] > Len(s) THEN r ELSE CrcFold(CrcByte(r, s), s)

hash(s) ==
    LET r == CrcFold(<<1, 255, 255, 255, 255>>, s) IN
    <<255 - r[2], 255 - r[3], 255 - r[4], 255 - r[5]>>

\* to_le_bytes / from_le_bytes of a number on w bytes.
RECURSIVE to_le_bytes(_, _)
to_le_bytes(n, w) ==
    IF w = 0 THEN <<>> ELSE <<n % 256>> \o to_le_bytes(n \div 256, w - 1)

RECURSIVE LeValue(_, _)
LeValue(s, i) == IF i > Len(s) THEN 0 ELSE s[i] + 256 * LeValue(s, i + 1)

from_le_bytes(s) ==
    IF \E i \in DOMAIN s : (i > 4 /\ s[i] # 0) \/ (i = 4 /\ s[i] > 127)
    THEN Huge
    ELSE LeValue(SubSeq(s, 1, IF Len(s) < 4 THEN Len(s) ELSE 4), 1)

Reverse(s) == [i \in 1..Len(s) |-> s[Len(s) + 1 - i]]

to_be_bytes(n, w) == Reverse(to_le_bytes(n, w))
from_be_bytes(s) == from_le_bytes(Reverse(s))

\* bincode::serialize: the variant's index as a u32, then the fields in
\* order, every integer little-endian on its full width, the f32 as its
\* four bytes.
\* Mutant: the two memory fields are written in the other order.
serialize_swapped(cmd) ==
    IF cmd.kind = "SubmitData"
    THEN to_le_bytes(0, 4) \o to_le_bytes(cmd.collector_id, 16)
             \o to_le_bytes(cmd.used_memory, 8)
             \o to_le_bytes(cmd.total_memory, 8)
             \o to_le_bytes(cmd.average_cpu_usage, 4)
    ELSE to_le_bytes(1, 4) \o to_le_bytes(cmd.collector_id, 16)

serialize(cmd) ==
    IF cmd.kind = "SubmitData"
    THEN to_le_bytes(0, 4) \o to_le_bytes(cmd.collector_id, 16)
             \o to_le_bytes(cmd.total_memory, 8)
             \o to_le_bytes(cmd.used_memory, 8)
             \o to_le_bytes(cmd.average_cpu_usage, 4)
    ELSE to_le_bytes(1, 4) \o to_le_bytes(cmd.collector_id, 16)

\* bincode::deserialize: an error for an unknown variant or for bytes that
\* end early; bytes after the value are ignored.
DeserializeError == [ok |-> FALSE]

deserialize(s) ==
    IF Len(s) < 4 THEN DeserializeError
    ELSE LET variant == from_le_bytes(SubSeq(s, 1, 4)) IN
         IF variant = 0 /\ Len(s) >= 40
         THEN [ok |-> TRUE,
               value |-> [kind |-> "SubmitData",
                          collector_id |-> from_le_bytes(SubSeq(s, 5, 20)),
                          total_memory |-> from_le_bytes(SubSeq(s, 21, 28)),
                          used_memory |-> from_le_bytes(SubSeq(s, 29, 36)),
                          average_cpu_usage |-> from_le_bytes(SubSeq(s, 37, 40))]]
         ELSE IF variant = 1 /\ Len(s) >= 20
         THEN [ok |-> TRUE,
               value |-> [kind |-> "RequestWork",
                          collector_id |-> from_le_bytes(SubSeq(s, 5, 20))]]
         ELSE DeserializeError

\* Mutant: the integers of the frame are written least significant byte
\* first.
encode_v1_bytes_le(timestamp, cmd) ==
    LET payload_bytes == serialize(cmd) IN
    to_le_bytes(MAGIC_NUMBER, 2) \o to_le_bytes(VERSION_NUMBER, 2)
        \o to_le_bytes(timestamp, 4) \o to_le_bytes(Len(payload_bytes), 4)
        \o payload_bytes \o hash(payload_bytes)

\* encode_v1 with the timestamp unix_now() returned.
encode_v1_bytes(timestamp, cmd) ==
    LET payload_bytes == serialize(cmd) IN
    to_be_bytes(MAGIC_NUMBER, 2) \o to_be_bytes(VERSION_NUMBER, 2)
        \o to_be_bytes(timestamp, 4) \o to_be_bytes(Len(payload_bytes), 4)
        \o payload_bytes \o Reverse(hash(payload_bytes))

NoCommand == [kind |-> "None", collector_id |-> 0]
NoDamage == [op |-> "none", at |-> 0]

\* decode_v1: an index or a slice past the end of the buffer, a failed
\* assert_eq! and the unwrap of a deserialize error all panic.
Panic == [ok |-> FALSE]

\* Mutant: the CRC is not compared.
decode_v1_bytes_nocrc(buf) ==
    IF Len(buf) < 12 THEN Panic
    ELSE LET magic_number == from_be_bytes(SubSeq(buf, 1, 2))
             version_number == from_be_bytes(SubSeq(buf, 3, 4))
             timestamp == from_be_bytes(SubSeq(buf, 5, 8))
             payload_size == from_be_bytes(SubSeq(buf, 9, 12))
         IN  IF payload_size = Huge \/ Len(buf) < 16 + payload_size THEN Panic
             ELSE LET payload == SubSeq(buf, 13, 12 + payload_size)
                      crc == SubSeq(buf, 13 + payload_size, 16 + payload_size)
                  IN  IF magic_number # MAGIC_NUMBER THEN Panic
                      ELSE IF version_number # VERSION_NUMBER THEN Panic
                      ELSE IF FALSE THEN Panic
                      ELSE LET d == deserialize(payload) IN
                           IF d.ok
                           THEN [ok |-> TRUE, timestamp |-> timestamp,
                                 command |-> d.value]
                           ELSE Panic

\* Mutant: the version is not compared.
decode_v1_bytes_anyversion(buf) ==
    IF Len(buf) < 12 THEN Panic
    ELSE LET magic_number == from_be_bytes(SubSeq(buf, 1, 2))
             version_number == from_be_bytes(SubSeq(buf, 3, 4))
             timestamp == from_be_bytes(SubSeq(buf, 5, 8))
             payload_size == from_be_bytes(SubSeq(buf, 9, 12))
         IN  IF payload_size = Huge \/ Len(buf) < 16 + payload_size THEN Panic
             ELSE LET payload == SubSeq(buf, 13, 12 + payload_size)
                      crc == SubSeq(buf, 13 + payload_size, 16 + payload_size)
                  IN  IF magic_number # MAGIC_NUMBER THEN Panic
                      ELSE IF FALSE THEN Panic
                      ELSE IF crc # Reverse(hash(payload)) THEN Panic
                      ELSE LET d == deserialize(payload) IN
                           IF d.ok
                           THEN [ok |-> TRUE, timestamp |-> timestamp,
                                 command |-> d.value]
                           ELSE Panic

\* Mutant: a buffer that ends within the CRC is taken without the comparison.
decode_v1_bytes_lenient(buf) ==
    IF Len(buf) < 12 THEN Panic
    ELSE LET magic_number == from_be_bytes(SubSeq(buf, 1, 2))
             version_number == from_be_bytes(SubSeq(buf, 3, 4))
             timestamp == from_be_bytes(SubSeq(buf, 5, 8))
             payload_size == from_be_bytes(SubSeq(buf, 9, 12))
         IN  IF payload_size = Huge \/ Len(buf) < 12 + payload_size THEN Panic
             ELSE IF Len(buf) < 16 + payload_size
             THEN LET d == deserialize(SubSeq(buf, 13, 12 + payload_size)) IN
                  IF d.ok /\ magic_number = MAGIC_NUMBER
                          /\ version_number = VERSION_NUMBER
                  THEN [ok |-> TRUE, timestamp |-> timestamp,
                        command |-> d.value]
                  ELSE Panic
             ELSE LET payload == SubSeq(buf, 13, 12 + payload_size)
                      crc == SubSeq(buf, 13 + payload_size, 16 + payload_size)
                  IN  IF magic_number # MAGIC_NUMBER THEN Panic
                      ELSE IF version_number # VERSION_NUMBER THEN Panic
                      ELSE IF crc # Reverse(hash(payload)) THEN Panic
                      ELSE LET d == deserialize(payload) IN
                           IF d.ok
                           THEN [ok |-> TRUE, timestamp |-> timestamp,
                                 command |-> d.value]
                           ELSE Panic

decode_v1_bytes(buf) ==
    IF Len(buf) < 12 THEN Panic
    ELSE LET magic_number == from_be_bytes(SubSeq(buf, 1, 2))
             version_number == from_be_bytes(SubSeq(buf, 3, 4))
             timestamp == from_be_bytes(SubSeq(buf, 5, 8))
             payload_size == from_be_bytes(SubSeq(buf, 9, 12))
         IN  IF payload_size = Huge \/ Len(buf) < 16 + payload_size THEN Panic
             ELSE LET payload == SubSeq(buf, 13, 12 + payload_size)
                      crc == SubSeq(buf, 13 + payload_size, 16 + payload_size)
                  IN  IF magic_number # MAGIC_NUMBER THEN Panic
                      ELSE IF version_number # VERSION_NUMBER THEN Panic
                      ELSE IF crc # Reverse(hash(payload)) THEN Panic
                      ELSE LET d == deserialize(payload) IN
                           IF d.ok
                           THEN [ok |-> TRUE, timestamp |-> timestamp,
                                 command |-> d.value]
                           ELSE Panic

VARIABLES
    \* agent
    sampled,     \* samples collect_data has emitted
    chan,        \* the mpsc channel tx -> rx
    queue,       \* send_queue: VecDeque of encoded frames
    pc,          \* where main / send_queue stands
    command,     \* the frame popped in send_queue's loop (NoFrame: none)
    stream,      \* the connection of the current (or last) cycle, 0: none
    result,      \* what send_queue returned, until the next recv
    \* connections and their handlers
    nconn,       \* connections accepted so far
    net,         \* "up", "reset", or "closed" once both ends are gone
    cliOpen,     \* the agent still holds the stream
    c2s, s2c,    \* bytes in flight, as whole messages
    hpc,         \* where new_connection stands
    hcmd,        \* the command the handler decoded
    hresp,       \* the response the handler is about to write
    \* server
    rows,        \* the timeseries table
    COMMANDS,    \* the command store
    \* history
    prePop,      \* the queue as it was before the cycle's last pop_front
    cause,       \* why the cycle ended, until the next recv
    wlog,        \* what the agent wrote, in order: [conn, cmd]
    acked,       \* frames for which the agent read Ack
    sent,        \* what the handlers wrote, in order: [conn, resp, cmd]
    failed,      \* [conn, cmd]: commands whose INSERT failed
    tasked,      \* the agent has read a Task response
    \* the server as its peers see it
    rec,         \* the store's calls and the peers' frames are recorded
    trace,       \* the store's calls, in order: [op, id, ret, conn]
    written,     \* per connection: the commands the peer wrote
    \* one frame, byte by byte
    cstep,       \* "encode", "wire", "done"; "idle": no frame is followed
    given,       \* the command given to encode_v1
    stamped,     \* what unix_now() returned in encode_v1
    buffer,      \* the bytes
    damage,      \* what happened to the bytes on the way: [op, at]
    decoded,     \* what decode_v1 made of the bytes
    \* the agent's process
    file,        \* the file "uuid": [exists, text]
    uuid,        \* main's uuid; 0 before get_uuid has returned
    returned,    \* what the calls of get_uuid returned, in order
    generated,   \* what the calls of Uuid::new_v4 returned, in order
    errs,        \* the "Error sending data" lines the sampler printed
    \* time
    htimestamp,  \* the timestamp the handler decoded with its command
    received,    \* the column `received` of the timeseries table, row by row
    encoded,     \* the calls of encode_v1 in main, in order: [cmd, frame]
    \* the store's mutex
    lock,        \* who holds the guard of COMMANDS: [who, n]
    apc          \* where each call of shutdown_collector stands: [at, id]

agentVars == <<sampled, chan, queue, pc, command, stream, result>>
connVars == <<nconn, net, cliOpen, c2s, s2c, hpc, hcmd, hresp>>
serverVars == <<rows, COMMANDS>>
logVars == <<rec, trace, written>>
codecVars == <<cstep, given, stamped, buffer, damage, decoded>>
procVars == <<file, uuid, returned, generated, errs>>
clockVars == <<now, htimestamp, received, encoded>>
lockVars == <<lock, apc>>

Admins == {1, 2}          \* requests to shutdown_collector served at a time
Free == [who |-> "none", n |-> 0]

\* u128's to_string and str::parse::<u128>: the decimal digits, most
\* significant first. parse fails on the empty string.
RECURSIVE to_string(_)
to_string(n) ==
    IF n < 10 THEN <<n>> ELSE Append(to_string(n \div 10), n % 10)

ParseError == -1

RECURSIVE ParseDigits(_)
ParseDigits(text) ==
    IF text = <<>> THEN 0
    ELSE 10 * ParseDigits(SubSeq(text, 1, Len(text) - 1)) + text[Len(text)]

parse(text) == IF text = <<>> THEN ParseError ELSE ParseDigits(text)

\* The process of agent a runs: get_uuid has read a from the file.
Started ==
    /\ file = [a \in Agents |-> [exists |-> TRUE, text |-> to_string(a)]]
    /\ uuid = [a \in Agents |-> a]
    /\ returned = [a \in Agents |-> <<a>>]
    /\ generated = [a \in Agents |-> <<>>]
    /\ errs = [a \in Agents |-> 0]

\* The clock at the start of the run; nothing is encoded or stored yet, the
\* store's mutex is free and no request is being served.
ClockInit ==
    /\ now = 0
    /\ htimestamp = [c \in Conns |-> 0]
    /\ received = <<>>
    /\ encoded = [a \in Agents |-> <<>>]
    /\ lock = Free
    /\ apc = [p \in Admins |-> [at |-> "idle", id |-> 0]]

histVars ==
    <<prePop, cause, wlog, acked, sent, failed, tasked, logVars, codecVars,
      procVars, clockVars, lockVars>>
vars == <<agentVars, connVars, serverVars, histVars>>

Init ==
    /\ sampled = [a \in Agents |-> 0]
    /\ chan = [a \in Agents |-> <<>>]
    /\ queue = [a \in Agents |-> <<>>]
    /\ pc = [a \in Agents |-> "recv"]
    /\ command = [a \in Agents |-> NoFrame]
    /\ stream = [a \in Agents |-> 0]
    /\ result = [a \in Agents |-> "None"]
    /\ nconn = 0
    /\ net = [c \in Conns |-> "up"]
    /\ cliOpen = [c \in Conns |-> FALSE]
    /\ c2s = [c \in Conns |-> <<>>]
    /\ s2c = [c \in Conns |-> <<>>]
    /\ hpc = [c \in Conns |-> "idle"]
    /\ hcmd = [c \in Conns |-> NoCmd]
    /\ hresp = [c \in Conns |-> "None"]
    /\ rows = <<>>
    /\ COMMANDS = [id \in Ids |-> "None"]
    /\ prePop = [a \in Agents |-> <<>>]
    /\ cause = [a \in Agents |-> "none"]
    /\ wlog = [a \in Agents |-> <<>>]
    /\ acked = [a \in Agents |-> {}]
    /\ sent = <<>>
    /\ failed = {}
    /\ tasked = [a \in Agents |-> FALSE]
    /\ rec = FALSE
    /\ trace = <<>>
    /\ written = [c \in Conns |-> <<>>]
    /\ cstep = "idle"
    /\ given = NoCommand
    /\ stamped = 0
    /\ buffer = <<>>
    /\ damage = NoDamage
    /\ decoded = Panic
    /\ Started
    /\ ClockInit

\* ------------------------------------------------------------ the agent

\* collect_data: one pass of the loop hands one SubmitData to the channel.
\* Mutant: a rendezvous channel: send waits until main is in rx.recv().
collect_data_rendezvous(a) ==
    /\ pc[a] = "recv" /\ chan[a] = <<>>
    /\ sampled[a] < MaxSamples
    /\ sampled' = [sampled EXCEPT ![a] = @ + 1]
    /\ chan' = [chan EXCEPT ![a] = Append(@, SubmitData(uuid[a], sampled[a] + 1))]
    /\ UNCHANGED <<queue, pc, command, stream, result>>
    /\ UNCHANGED <<connVars, serverVars, histVars>>

\* The channel is the one main creates (std::sync::mpsc::channel): send
\* returns at once, and succeeds while main holds the receiver.
collect_data(a) ==
    /\ pc[a] \notin {"start", "panic", "exit"}
    /\ sampled[a] < MaxSamples
    /\ sampled' = [sampled EXCEPT ![a] = @ + 1]
    /\ chan' = [chan EXCEPT ![a] = Append(@, SubmitData(uuid[a], sampled[a] + 1))]
    /\ UNCHANGED <<queue, pc, command, stream, result>>
    /\ UNCHANGED <<connVars, serverVars, histVars>>

\* main: rx.recv() returns a command; it is encoded, pushed to the back of
\* the queue and send_queue is entered. The result of the previous call was
\* printed and is gone.
main_recv(a) ==
    /\ pc[a] = "recv"
    /\ chan[a] # <<>>
    /\ chan' = [chan EXCEPT ![a] = Tail(@)]
    /\ queue' = [queue EXCEPT ![a] = Append(@, encode_v1(Head(chan[a])))]
    /\ pc' = [pc EXCEPT ![a] = "connect"]
    /\ result' = [result EXCEPT ![a] = "None"]
    /\ cause' = [cause EXCEPT ![a] = "none"]
    /\ prePop' = [prePop EXCEPT ![a] = <<>>]
    /\ encoded' = [encoded EXCEPT ![a] =
                    Append(@, [cmd |-> Head(chan[a]),
                               frame |-> encode_v1(Head(chan[a]))])]
    /\ UNCHANGED <<sampled, command, stream>>
    /\ UNCHANGED <<connVars, serverVars>>
    /\ UNCHANGED <<wlog, acked, sent, failed, tasked, logVars, codecVars, procVars>>
    /\ UNCHANGED <<now, htimestamp, received, lockVars>>

\* What every return of send_queue does: the stream is dropped, and what was
\* not read from it is discarded.
Return(a, res, why) ==
    /\ pc' = [pc EXCEPT ![a] = "recv"]
    /\ result' = [result EXCEPT ![a] = res]
    /\ cause' = [cause EXCEPT ![a] = why]
    /\ command' = [command EXCEPT ![a] = NoFrame]
    /\ cliOpen' = [c \in Conns |-> IF c = stream[a] THEN FALSE ELSE cliOpen[c]]
    /\ s2c' = [c \in Conns |-> IF c = stream[a] THEN <<>> ELSE s2c[c]]
    /\ net' = [c \in Conns |->
                IF c = stream[a] /\ hpc[c] \in {"dead", "done"}
                THEN "closed" ELSE net[c]]

\* Mutant: the listener serves a connection to its end before it accepts
\* the next.
connect_ok_serial(a) ==
    /\ pc[a] = "connect"
    /\ nconn < MaxConn
    /\ \A c \in 1..nconn : hpc[c] \in {"done", "dead"}
    /\ nconn' = nconn + 1
    /\ stream' = [stream EXCEPT ![a] = nconn + 1]
    /\ cliOpen' = [cliOpen EXCEPT ![nconn + 1] = TRUE]
    /\ hpc' = [hpc EXCEPT ![nconn + 1] = "read"]
    /\ pc' = [pc EXCEPT ![a] = "pop"]
    /\ UNCHANGED <<sampled, chan, queue, command, result>>
    /\ UNCHANGED <<net, c2s, s2c, hcmd, hresp>>
    /\ UNCHANGED <<serverVars, histVars>>

\* TcpStream::connect succeeds: the listener accepts and spawns a handler.
connect_ok(a) ==
    /\ pc[a] = "connect"
    /\ nconn < MaxConn
    /\ nconn' = nconn + 1
    /\ stream' = [stream EXCEPT ![a] = nconn + 1]
    /\ cliOpen' = [cliOpen EXCEPT ![nconn + 1] = TRUE]
    /\ hpc' = [hpc EXCEPT ![nconn + 1] = "read"]
    /\ pc' = [pc EXCEPT ![a] = "pop"]
    /\ UNCHANGED <<sampled, chan, queue, command, result>>
    /\ UNCHANGED <<net, c2s, s2c, hcmd, hresp>>
    /\ UNCHANGED <<serverVars, histVars>>

\* Mutant: a cycle that cannot connect gives up the oldest frame.
connect_fail_drops(a) ==
    /\ pc[a] = "connect"
    /\ pc' = [pc EXCEPT ![a] = "recv"]
    /\ result' = [result EXCEPT ![a] = "UnableToConnect"]
    /\ cause' = [cause EXCEPT ![a] = "connect"]
    /\ stream' = [stream EXCEPT ![a] = 0]
    /\ queue' = [queue EXCEPT ![a] = Tail(@)]
    /\ UNCHANGED <<sampled, chan, command>>
    /\ UNCHANGED <<connVars, serverVars>>
    /\ UNCHANGED <<prePop, wlog, acked, sent, failed, tasked, logVars, codecVars, clockVars, lockVars, procVars>>

\* TcpStream::connect fails: UnableToConnect.
connect_fail(a) ==
    /\ pc[a] = "connect"
    /\ pc' = [pc EXCEPT ![a] = "recv"]
    /\ result' = [result EXCEPT ![a] = "UnableToConnect"]
    /\ cause' = [cause EXCEPT ![a] = "connect"]
    /\ stream' = [stream EXCEPT ![a] = 0]
    /\ UNCHANGED <<sampled, chan, queue, command>>
    /\ UNCHANGED <<connVars, serverVars>>
    /\ UNCHANGED <<prePop, wlog, acked, sent, failed, tasked, logVars, codecVars, clockVars, lockVars, procVars>>

\* Mutant: every frame popped goes over a connection of its own.
pop_front_reconnect(a) ==
    /\ pc[a] = "pop"
    /\ IF queue[a] # <<>>
       THEN /\ command' = [command EXCEPT ![a] = Head(queue[a])]
            /\ queue' = [queue EXCEPT ![a] = Tail(@)]
            /\ prePop' = [prePop EXCEPT ![a] = queue[a]]
            /\ pc' = [pc EXCEPT ![a] = "write"]
       ELSE /\ pc' = [pc EXCEPT ![a] = "rw_write"]
            /\ UNCHANGED <<command, queue, prePop>>
    /\ IF nconn < MaxConn /\ wlog[a] # <<>>
       THEN /\ nconn' = nconn + 1
            /\ stream' = [stream EXCEPT ![a] = nconn + 1]
            /\ cliOpen' = [cliOpen EXCEPT ![nconn + 1] = TRUE]
            /\ hpc' = [hpc EXCEPT ![nconn + 1] = "read"]
       ELSE UNCHANGED <<nconn, stream, cliOpen, hpc>>
    /\ UNCHANGED <<sampled, chan, result>>
    /\ UNCHANGED <<net, c2s, s2c, hcmd, hresp, serverVars>>
    /\ UNCHANGED <<cause, wlog, acked, sent, failed, tasked, logVars, codecVars, clockVars, lockVars, procVars>>

\* while let Some(command) = queue.pop_front()
pop_front(a) ==
    /\ pc[a] = "pop"
    /\ IF queue[a] # <<>>
       THEN /\ command' = [command EXCEPT ![a] = Head(queue[a])]
            /\ queue' = [queue EXCEPT ![a] = Tail(@)]
            /\ prePop' = [prePop EXCEPT ![a] = queue[a]]
            /\ pc' = [pc EXCEPT ![a] = "write"]
       ELSE /\ pc' = [pc EXCEPT ![a] = "rw_write"]
            /\ UNCHANGED <<command, queue, prePop>>
    /\ UNCHANGED <<sampled, chan, stream, result>>
    /\ UNCHANGED <<connVars, serverVars>>
    /\ UNCHANGED <<cause, wlog, acked, sent, failed, tasked, logVars, codecVars, clockVars, lockVars, procVars>>

\* Mutant: the agent writes its whole queue before it reads a response.
write_ok_ahead(a) ==
    /\ pc[a] = "write"
    /\ c2s' = [c2s EXCEPT ![stream[a]] =
                 IF net[stream[a]] = "up" THEN Append(@, command[a]) ELSE @]
    /\ wlog' = [wlog EXCEPT ![a] =
                 Append(@, [conn |-> stream[a], cmd |-> command[a].payload])]
    /\ pc' = [pc EXCEPT ![a] = IF queue[a] # <<>> THEN "pop" ELSE "read"]
    /\ UNCHANGED <<sampled, chan, queue, command, stream, result>>
    /\ UNCHANGED <<nconn, net, cliOpen, s2c, hpc, hcmd, hresp>>
    /\ UNCHANGED <<serverVars, prePop, cause, acked, sent, failed, tasked, logVars, codecVars, clockVars, lockVars, procVars>>

\* stream.write_all(&command) succeeds. On a connection that is already
\* reset the bytes may still be accepted by the local socket and are lost.
write_ok(a) ==
    /\ pc[a] = "write"
    /\ c2s' = [c2s EXCEPT ![stream[a]] =
                 IF net[stream[a]] = "up" THEN Append(@, command[a]) ELSE @]
    /\ wlog' = [wlog EXCEPT ![a] =
                 Append(@, [conn |-> stream[a], cmd |-> command[a].payload])]
    /\ pc' = [pc EXCEPT ![a] = "read"]
    /\ UNCHANGED <<sampled, chan, queue, command, stream, result>>
    /\ UNCHANGED <<nconn, net, cliOpen, s2c, hpc, hcmd, hresp>>
    /\ UNCHANGED <<serverVars, prePop, cause, acked, sent, failed, tasked, logVars, codecVars, clockVars, lockVars, procVars>>

\* stream.write_all(&command) fails: push_front, UnableToSendData.
write_fail(a) ==
    /\ pc[a] = "write"
    /\ net[stream[a]] = "reset"
    /\ queue' = [queue EXCEPT ![a] = <<command[a]>> \o @]
    /\ Return(a, "UnableToSendData", "write")
    /\ UNCHANGED <<sampled, chan, stream>>
    /\ UNCHANGED <<nconn, c2s, hpc, hcmd, hresp>>
    /\ UNCHANGED <<serverVars, prePop, wlog, acked, sent, failed, tasked, logVars, codecVars, clockVars, lockVars, procVars>>

\* Mutant: the read gives up although the connection is sound (a timeout).
read_err_timeout(a) ==
    /\ pc[a] = "read"
    /\ Return(a, "UnableToReceiveData", "read_err")
    /\ UNCHANGED <<sampled, chan, queue, stream>>
    /\ UNCHANGED <<nconn, c2s, hpc, hcmd, hresp>>
    /\ UNCHANGED <<serverVars, prePop, wlog, acked, sent, failed, tasked, logVars, codecVars, clockVars, lockVars, procVars>>

\* stream.read(&mut buf) fails: the ? operator returns at once.
read_err(a) ==
    /\ pc[a] = "read"
    /\ net[stream[a]] = "reset"
    /\ Return(a, "UnableToReceiveData", "read_err")
    /\ UNCHANGED <<sampled, chan, queue, stream>>
    /\ UNCHANGED <<nconn, c2s, hpc, hcmd, hresp>>
    /\ UNCHANGED <<serverVars, prePop, wlog, acked, sent, failed, tasked, logVars, codecVars, clockVars, lockVars, procVars>>

\* The handler's end of the connection is closed and nothing is left to read.
PeerClosed(c) ==
    /\ net[c] = "up"
    /\ hpc[c] \in {"dead", "done"}
    /\ s2c[c] = <<>>

\* Mutant: the zero-byte read returns without push_front.
read_zero_nopush(a) ==
    /\ pc[a] = "read"
    /\ PeerClosed(stream[a])
    /\ Return(a, "UnableToReceiveData", "zero")
    /\ UNCHANGED <<sampled, chan, queue, stream>>
    /\ UNCHANGED <<nconn, c2s, hpc, hcmd, hresp>>
    /\ UNCHANGED <<serverVars, prePop, wlog, acked, sent, failed, tasked, logVars, codecVars, clockVars, lockVars, procVars>>

\* Mutant: the zero-byte read leaves the loop (break) instead of returning.
read_zero_break(a) ==
    /\ pc[a] = "read"
    /\ PeerClosed(stream[a])
    /\ queue' = [queue EXCEPT ![a] = <<command[a]>> \o @]
    /\ command' = [command EXCEPT ![a] = NoFrame]
    /\ pc' = [pc EXCEPT ![a] = "rw_write"]
    /\ UNCHANGED <<sampled, chan, stream, result>>
    /\ UNCHANGED <<connVars, serverVars, histVars>>

\* stream.read(&mut buf) returns 0: push_front, UnableToReceiveData.
read_zero(a) ==
    /\ pc[a] = "read"
    /\ PeerClosed(stream[a])
    /\ queue' = [queue EXCEPT ![a] = <<command[a]>> \o @]
    /\ Return(a, "UnableToReceiveData", "zero")
    /\ UNCHANGED <<sampled, chan, stream>>
    /\ UNCHANGED <<nconn, c2s, hpc, hcmd, hresp>>
    /\ UNCHANGED <<serverVars, prePop, wlog, acked, sent, failed, tasked, logVars, codecVars, clockVars, lockVars, procVars>>

\* stream.read(&mut buf) returns a response; decode_response_v1; Ack or not.
read_response(a) ==
    /\ pc[a] = "read"
    /\ net[stream[a]] = "up"
    /\ s2c[stream[a]] # <<>>
    /\ IF Head(s2c[stream[a]]) = "Ack"
       THEN /\ acked' = [acked EXCEPT ![a] = @ \cup {command[a].payload.seq}]
            /\ command' = [command EXCEPT ![a] = NoFrame]
            /\ pc' = [pc EXCEPT ![a] = "pop"]
            /\ s2c' = [s2c EXCEPT ![stream[a]] = Tail(@)]
            /\ UNCHANGED <<queue, result, cause, cliOpen, net>>
       ELSE /\ queue' = [queue EXCEPT ![a] = <<command[a]>> \o @]
            /\ Return(a, "UnableToReceiveData", "not_ack")
            /\ UNCHANGED acked
    /\ UNCHANGED <<sampled, chan, stream>>
    /\ UNCHANGED <<nconn, c2s, hpc, hcmd, hresp>>
    /\ UNCHANGED <<serverVars, prePop, wlog, sent, failed, tasked, logVars, codecVars, clockVars, lockVars, procVars>>

\* Ask for work: encode RequestWork(collector_id) and write it.
rw_write_ok(a) ==
    /\ pc[a] = "rw_write"
    /\ c2s' = [c2s EXCEPT ![stream[a]] =
                 IF net[stream[a]] = "up"
                 THEN Append(@, encode_v1(RequestWork(uuid[a]))) ELSE @]
    /\ wlog' = [wlog EXCEPT ![a] =
                 Append(@, [conn |-> stream[a], cmd |-> RequestWork(uuid[a])])]
    /\ pc' = [pc EXCEPT ![a] = "rw_read"]
    /\ UNCHANGED <<sampled, chan, queue, command, stream, result>>
    /\ UNCHANGED <<nconn, net, cliOpen, s2c, hpc, hcmd, hresp>>
    /\ UNCHANGED <<serverVars, prePop, cause, acked, sent, failed, tasked, logVars, codecVars, clockVars, lockVars, procVars>>

rw_write_fail(a) ==
    /\ pc[a] = "rw_write"
    /\ net[stream[a]] = "reset"
    /\ Return(a, "UnableToSendData", "rw_write")
    /\ UNCHANGED <<sampled, chan, queue, stream>>
    /\ UNCHANGED <<nconn, c2s, hpc, hcmd, hresp>>
    /\ UNCHANGED <<serverVars, prePop, wlog, acked, sent, failed, tasked, logVars, codecVars, clockVars, lockVars, procVars>>

\* The read after RequestWork fails or returns 0.
rw_read_fail(a) ==
    /\ pc[a] = "rw_read"
    /\ net[stream[a]] = "reset" \/ PeerClosed(stream[a])
    /\ Return(a, "UnableToReceiveData", "rw_read")
    /\ UNCHANGED <<sampled, chan, queue, stream>>
    /\ UNCHANGED <<nconn, c2s, hpc, hcmd, hresp>>
    /\ UNCHANGED <<serverVars, prePop, wlog, acked, sent, failed, tasked, logVars, codecVars, clockVars, lockVars, procVars>>

\* The read after RequestWork returns a response: NoWork is a no-op, a Task
\* is printed, anything else is ignored; send_queue returns Ok(()).
rw_read_response(a) ==
    /\ pc[a] = "rw_read"
    /\ net[stream[a]] = "up"
    /\ s2c[stream[a]] # <<>>
    /\ tasked' = [tasked EXCEPT ![a] = @ \/ Head(s2c[stream[a]]) = "Task"]
    /\ Return(a, "Ok", "ok")
    /\ UNCHANGED <<sampled, chan, queue, stream>>
    /\ UNCHANGED <<nconn, c2s, hpc, hcmd, hresp>>
    /\ UNCHANGED <<serverVars, prePop, wlog, acked, sent, failed, logVars, codecVars, clockVars, lockVars, procVars>>

\* ----------------------------------------------------------- the network

\* The connection is reset while the agent holds it: what is in flight is
\* lost, and every later read or write on either end fails.
conn_reset(c) ==
    /\ c <= nconn
    /\ net[c] = "up"
    /\ cliOpen[c]
    /\ net' = [net EXCEPT ![c] = "reset"]
    /\ c2s' = [c2s EXCEPT ![c] = <<>>]
    /\ s2c' = [s2c EXCEPT ![c] = <<>>]
    /\ UNCHANGED <<nconn, cliOpen, hpc, hcmd, hresp>>
    /\ UNCHANGED <<agentVars, serverVars, histVars>>

\* ----------------------------------------------------- the handler

\* The task ends: its locals are dropped and its socket is closed, with
\* whatever was not read from it.
HandlerEnds(c, how) ==
    /\ hpc' = [hpc EXCEPT ![c] = how]
    /\ hcmd' = [hcmd EXCEPT ![c] = NoCmd]
    /\ hresp' = [hresp EXCEPT ![c] = "None"]
    /\ c2s' = [c2s EXCEPT ![c] = <<>>]
    /\ net' = [net EXCEPT ![c] = IF cliOpen[c] THEN @ ELSE "closed"]
    /\ UNCHANGED <<nconn, cliOpen, s2c>>

\* Mutant: the handler takes up the frame that arrived last.
handler_read_latest(c) ==
    /\ hpc[c] = "read"
    /\ net[c] = "up"
    /\ c2s[c] # <<>>
    /\ decode_ok(c2s[c][Len(c2s[c])])
    /\ c2s' = [c2s EXCEPT ![c] = SubSeq(@, 1, Len(@) - 1)]
    /\ LET cmd == decode_v1(c2s[c][Len(c2s[c])]) IN
       /\ hcmd' = [hcmd EXCEPT ![c] = cmd]
       /\ htimestamp' = [htimestamp EXCEPT ![c] = (c2s[c][Len(c2s[c])]).timestamp]
       /\ IF cmd.kind = "RequestWork"
          THEN /\ hresp' = [hresp EXCEPT ![c] =
                     IF COMMANDS[cmd.cid] # "None" THEN "Task" ELSE "NoWork"]
               /\ COMMANDS' = [COMMANDS EXCEPT ![cmd.cid] = "None"]
               /\ hpc' = [hpc EXCEPT ![c] = "write"]
          ELSE /\ hpc' = [hpc EXCEPT ![c] = "insert"]
               /\ UNCHANGED <<hresp, COMMANDS>>
       /\ trace' = IF rec /\ cmd.kind = "RequestWork"
                   THEN Append(trace, [op |-> "get", id |-> cmd.cid,
                                       ret |-> COMMANDS[cmd.cid], conn |-> c])
                   ELSE trace
    /\ UNCHANGED <<nconn, net, cliOpen, s2c>>
    /\ UNCHANGED rows
    /\ UNCHANGED <<agentVars, prePop, cause, wlog, acked, sent, failed, tasked>>
    /\ UNCHANGED <<rec, written, codecVars, procVars>>
    /\ UNCHANGED <<now, received, encoded, lockVars>>

\* Mutant: a command pending for any id answers the request.
handler_read_any(c) ==
    /\ hpc[c] = "read"
    /\ net[c] = "up"
    /\ c2s[c] # <<>>
    /\ decode_ok(Head(c2s[c]))
    /\ c2s' = [c2s EXCEPT ![c] = Tail(@)]
    /\ LET cmd == decode_v1(Head(c2s[c])) IN
       /\ hcmd' = [hcmd EXCEPT ![c] = cmd]
       /\ htimestamp' = [htimestamp EXCEPT ![c] = (Head(c2s[c])).timestamp]
       /\ IF cmd.kind = "RequestWork"
          THEN /\ hresp' = [hresp EXCEPT ![c] =
                     IF \E id \in Ids : COMMANDS[id] # "None"
                     THEN "Task" ELSE "NoWork"]
               /\ COMMANDS' = [COMMANDS EXCEPT ![cmd.cid] = "None"]
               /\ hpc' = [hpc EXCEPT ![c] = "write"]
          ELSE /\ hpc' = [hpc EXCEPT ![c] = "insert"]
               /\ UNCHANGED <<hresp, COMMANDS>>
       /\ trace' = IF rec /\ cmd.kind = "RequestWork"
                   THEN Append(trace, [op |-> "get", id |-> cmd.cid,
                                       ret |-> COMMANDS[cmd.cid], conn |-> c])
                   ELSE trace
    /\ UNCHANGED <<nconn, net, cliOpen, s2c>>
    /\ UNCHANGED rows
    /\ UNCHANGED <<agentVars, prePop, cause, wlog, acked, sent, failed, tasked>>
    /\ UNCHANGED <<rec, written, codecVars, procVars>>
    /\ UNCHANGED <<now, received, encoded, lockVars>>

\* Mutant: the command is read and stays in the store.
handler_read_keep(c) ==
    /\ hpc[c] = "read"
    /\ net[c] = "up"
    /\ c2s[c] # <<>>
    /\ decode_ok(Head(c2s[c]))
    /\ c2s' = [c2s EXCEPT ![c] = Tail(@)]
    /\ LET cmd == decode_v1(Head(c2s[c])) IN
       /\ hcmd' = [hcmd EXCEPT ![c] = cmd]
       /\ htimestamp' = [htimestamp EXCEPT ![c] = (Head(c2s[c])).timestamp]
       /\ IF cmd.kind = "RequestWork"
          THEN /\ hresp' = [hresp EXCEPT ![c] =
                     IF COMMANDS[cmd.cid] # "None" THEN "Task" ELSE "NoWork"]
               /\ COMMANDS' = COMMANDS
               /\ hpc' = [hpc EXCEPT ![c] = "write"]
          ELSE /\ hpc' = [hpc EXCEPT ![c] = "insert"]
               /\ UNCHANGED <<hresp, COMMANDS>>
       /\ trace' = IF rec /\ cmd.kind = "RequestWork"
                   THEN Append(trace, [op |-> "get", id |-> cmd.cid,
                                       ret |-> COMMANDS[cmd.cid], conn |-> c])
                   ELSE trace
    /\ UNCHANGED <<nconn, net, cliOpen, s2c>>
    /\ UNCHANGED rows
    /\ UNCHANGED <<agentVars, prePop, cause, wlog, acked, sent, failed, tasked>>
    /\ UNCHANGED <<rec, written, codecVars, procVars>>
    /\ UNCHANGED <<now, received, encoded, lockVars>>

\* socket.read returns a whole frame; decode_v1; for RequestWork the store
\* is consulted (get_commands removes the entry under the lock).
handler_read(c) ==
    /\ hpc[c] = "read"
    /\ net[c] = "up"
    /\ c2s[c] # <<>>
    /\ decode_ok(Head(c2s[c]))
    /\ c2s' = [c2s EXCEPT ![c] = Tail(@)]
    /\ LET cmd == decode_v1(Head(c2s[c])) IN
       /\ hcmd' = [hcmd EXCEPT ![c] = cmd]
       /\ htimestamp' = [htimestamp EXCEPT ![c] = (Head(c2s[c])).timestamp]
       /\ IF cmd.kind = "RequestWork"
          THEN /\ hresp' = [hresp EXCEPT ![c] =
                     IF COMMANDS[cmd.cid] # "None" THEN "Task" ELSE "NoWork"]
               /\ COMMANDS' = [COMMANDS EXCEPT ![cmd.cid] = "None"]
               /\ hpc' = [hpc EXCEPT ![c] = "write"]
          ELSE /\ hpc' = [hpc EXCEPT ![c] = "insert"]
               /\ UNCHANGED <<hresp, COMMANDS>>
       /\ trace' = IF rec /\ cmd.kind = "RequestWork"
                   THEN Append(trace, [op |-> "get", id |-> cmd.cid,
                                       ret |-> COMMANDS[cmd.cid], conn |-> c])
                   ELSE trace
    /\ UNCHANGED <<nconn, net, cliOpen, s2c>>
    /\ UNCHANGED rows
    /\ UNCHANGED <<agentVars, prePop, cause, wlog, acked, sent, failed, tasked>>
    /\ UNCHANGED <<rec, written, codecVars, procVars>>
    /\ UNCHANGED <<now, received, encoded, lockVars>>

\* socket.read returns only part of a frame (a stream has no message
\* boundaries): decode_v1 indexes past the end and the task panics.
handler_read_partial(c) ==
    /\ hpc[c] = "read"
    /\ net[c] = "up"
    /\ c2s[c] # <<>>
    /\ HandlerEnds(c, "dead")
    /\ UNCHANGED <<agentVars, serverVars, histVars>>

\* Mutant: the failed assert ends the process, and every task with it.
handler_read_corrupt_exits(c) ==
    /\ hpc[c] = "read"
    /\ net[c] = "up"
    /\ c2s[c] # <<>>
    /\ ~decode_ok(Head(c2s[c]))
    /\ hpc' = [d \in Conns |-> "dead"]
    /\ hcmd' = [d \in Conns |-> NoCmd]
    /\ hresp' = [d \in Conns |-> "None"]
    /\ c2s' = [d \in Conns |-> <<>>]
    /\ net' = [d \in Conns |-> IF cliOpen[d] THEN net[d] ELSE "closed"]
    /\ UNCHANGED <<nconn, cliOpen, s2c>>
    /\ UNCHANGED <<agentVars, serverVars, histVars>>

\* socket.read returns a frame that fails an assert of decode_v1: the
\* panic unwinds the task new_connection runs in (tokio::spawn), which
\* ends; the runtime and the other tasks run on.
handler_read_corrupt(c) ==
    /\ hpc[c] = "read"
    /\ net[c] = "up"
    /\ c2s[c] # <<>>
    /\ ~decode_ok(Head(c2s[c]))
    /\ HandlerEnds(c, "dead")
    /\ UNCHANGED <<agentVars, serverVars, histVars>>

\* socket.read returns 0: the handler returns.
handler_read_zero(c) ==
    /\ hpc[c] = "read"
    /\ net[c] = "up"
    /\ c2s[c] = <<>>
    /\ c <= nconn /\ ~cliOpen[c]
    /\ HandlerEnds(c, "done")
    /\ UNCHANGED <<agentVars, serverVars, histVars>>

\* socket.read fails: expect() panics.
handler_read_err(c) ==
    /\ hpc[c] = "read"
    /\ net[c] = "reset"
    /\ HandlerEnds(c, "dead")
    /\ UNCHANGED <<agentVars, serverVars, histVars>>

\* Mutant: the values bound to the INSERT are those of whichever handler is
\* inserting.
handler_insert_ok_mixed(c) ==
    /\ hpc[c] = "insert"
    /\ \E d \in Conns :
           /\ hpc[d] = "insert"
           /\ rows' = Append(rows, [cid |-> hcmd[c].cid, seq |-> hcmd[d].seq])
    /\ received' = Append(received, htimestamp[c])
    /\ hresp' = [hresp EXCEPT ![c] = "Ack"]
    /\ hpc' = [hpc EXCEPT ![c] = "write"]
    /\ UNCHANGED <<nconn, net, cliOpen, c2s, s2c, hcmd>>
    /\ UNCHANGED COMMANDS
    /\ UNCHANGED <<agentVars, prePop, cause, wlog, acked, sent, failed, tasked>>
    /\ UNCHANGED <<logVars, codecVars, procVars, now, htimestamp, encoded, lockVars>>

\* Mutant: the row is stamped with the time of its reception.
handler_insert_ok_now(c) ==
    /\ hpc[c] = "insert"
    /\ rows' = Append(rows, [cid |-> hcmd[c].cid, seq |-> hcmd[c].seq])
    /\ received' = Append(received, unix_now)
    /\ hresp' = [hresp EXCEPT ![c] = "Ack"]
    /\ hpc' = [hpc EXCEPT ![c] = "write"]
    /\ UNCHANGED <<nconn, net, cliOpen, c2s, s2c, hcmd>>
    /\ UNCHANGED COMMANDS
    /\ UNCHANGED <<agentVars, prePop, cause, wlog, acked, sent, failed, tasked>>
    /\ UNCHANGED <<logVars, codecVars, procVars, now, htimestamp, encoded, lockVars>>

\* The INSERT succeeds: the row is stored, Ack is the response.
handler_insert_ok(c) ==
    /\ hpc[c] = "insert"
    /\ rows' = Append(rows, [cid |-> hcmd[c].cid, seq |-> hcmd[c].seq])
    /\ received' = Append(received, htimestamp[c])
    /\ hresp' = [hresp EXCEPT ![c] = "Ack"]
    /\ hpc' = [hpc EXCEPT ![c] = "write"]
    /\ UNCHANGED <<nconn, net, cliOpen, c2s, s2c, hcmd>>
    /\ UNCHANGED COMMANDS
    /\ UNCHANGED <<agentVars, prePop, cause, wlog, acked, sent, failed, tasked>>
    /\ UNCHANGED <<logVars, codecVars, procVars, now, htimestamp, encoded, lockVars>>

\* Mutant: the failed INSERT is acknowledged all the same.
handler_insert_fail_acks(c) ==
    /\ hpc[c] = "insert"
    /\ hresp' = [hresp EXCEPT ![c] = "Ack"]
    /\ hpc' = [hpc EXCEPT ![c] = "write"]
    /\ failed' = failed \cup {[conn |-> c, cmd |-> hcmd[c]]}
    /\ UNCHANGED <<nconn, net, cliOpen, c2s, s2c, hcmd>>
    /\ UNCHANGED <<rows, COMMANDS>>
    /\ UNCHANGED <<agentVars, prePop, cause, wlog, acked, sent, tasked, logVars, codecVars, clockVars, lockVars, procVars>>

\* Mutant: the INSERT fails and the handler returns, closing its socket.
handler_insert_fail_closes(c) ==
    /\ hpc[c] = "insert"
    /\ failed' = failed \cup {[conn |-> c, cmd |-> hcmd[c]]}
    /\ HandlerEnds(c, "done")
    /\ UNCHANGED <<rows, COMMANDS>>
    /\ UNCHANGED <<agentVars, prePop, cause, wlog, acked, sent, tasked, logVars, codecVars, clockVars, lockVars, procVars>>

\* The INSERT fails: the error is printed, nothing is written.
handler_insert_fail(c) ==
    /\ hpc[c] = "insert"
    /\ hpc' = [hpc EXCEPT ![c] = "read"]
    /\ hcmd' = [hcmd EXCEPT ![c] = NoCmd]
    /\ failed' = failed \cup {[conn |-> c, cmd |-> hcmd[c]]}
    /\ UNCHANGED <<nconn, net, cliOpen, c2s, s2c, hresp>>
    /\ UNCHANGED <<rows, COMMANDS>>
    /\ UNCHANGED <<agentVars, prePop, cause, wlog, acked, sent, tasked, logVars, codecVars, clockVars, lockVars, procVars>>

\* Mutant: the handler returns after its first response.
handler_write_once(c) ==
    /\ hpc[c] = "write"
    /\ net[c] = "up"
    /\ s2c' = [s2c EXCEPT ![c] = IF cliOpen[c] THEN Append(@, hresp[c]) ELSE @]
    /\ sent' = Append(sent, [conn |-> c, resp |-> hresp[c], cmd |-> hcmd[c]])
    /\ hpc' = [hpc EXCEPT ![c] = "done"]
    /\ hcmd' = [hcmd EXCEPT ![c] = NoCmd]
    /\ hresp' = [hresp EXCEPT ![c] = "None"]
    /\ UNCHANGED <<nconn, net, cliOpen, c2s>>
    /\ UNCHANGED <<agentVars, serverVars>>
    /\ UNCHANGED <<prePop, cause, wlog, acked, failed, tasked, logVars, codecVars, clockVars, lockVars, procVars>>

\* Mutant: the handler writes its response twice.
handler_write_twice(c) ==
    /\ hpc[c] = "write"
    /\ net[c] = "up"
    /\ s2c' = [s2c EXCEPT ![c] =
                 IF cliOpen[c] THEN Append(Append(@, hresp[c]), hresp[c]) ELSE @]
    /\ sent' = Append(Append(sent, [conn |-> c, resp |-> hresp[c], cmd |-> hcmd[c]]),
                      [conn |-> c, resp |-> hresp[c], cmd |-> hcmd[c]])
    /\ hpc' = [hpc EXCEPT ![c] = "read"]
    /\ hcmd' = [hcmd EXCEPT ![c] = NoCmd]
    /\ hresp' = [hresp EXCEPT ![c] = "None"]
    /\ UNCHANGED <<nconn, net, cliOpen, c2s>>
    /\ UNCHANGED <<agentVars, serverVars>>
    /\ UNCHANGED <<prePop, cause, wlog, acked, failed, tasked, logVars, codecVars, clockVars, lockVars, procVars>>

\* socket.write_all(&bytes) of the response; back to the read. When the
\* agent has dropped the stream the bytes reach nobody.
handler_write(c) ==
    /\ hpc[c] = "write"
    /\ net[c] = "up"
    /\ s2c' = [s2c EXCEPT ![c] = IF cliOpen[c] THEN Append(@, hresp[c]) ELSE @]
    /\ sent' = Append(sent, [conn |-> c, resp |-> hresp[c], cmd |-> hcmd[c]])
    /\ hpc' = [hpc EXCEPT ![c] = "read"]
    /\ hcmd' = [hcmd EXCEPT ![c] = NoCmd]
    /\ hresp' = [hresp EXCEPT ![c] = "None"]
    /\ UNCHANGED <<nconn, net, cliOpen, c2s>>
    /\ UNCHANGED <<agentVars, serverVars>>
    /\ UNCHANGED <<prePop, cause, wlog, acked, failed, tasked, logVars, codecVars, clockVars, lockVars, procVars>>

\* The server process stops while the handler waits at an await point: the
\* task is dropped and its socket is closed in an orderly way.
handler_killed(c) ==
    /\ hpc[c] \in {"read", "insert", "write"}
    /\ cliOpen[c]
    /\ net[c] = "up"
    /\ c2s[c] = <<>>
    /\ HandlerEnds(c, "dead")
    /\ UNCHANGED <<agentVars, serverVars, histVars>>

\* Mutant: a Task that could not be written goes back into the store.
handler_write_err_restores(c) ==
    /\ hpc[c] = "write"
    /\ net[c] = "reset"
    /\ HandlerEnds(c, "dead")
    /\ COMMANDS' = IF hresp[c] = "Task"
                   THEN [COMMANDS EXCEPT ![hcmd[c].cid] = "Shutdown"]
                   ELSE COMMANDS
    /\ UNCHANGED rows
    /\ UNCHANGED <<agentVars, histVars>>

\* socket.write_all fails: unwrap() panics.
handler_write_err(c) ==
    /\ hpc[c] = "write"
    /\ net[c] = "reset"
    /\ HandlerEnds(c, "dead")
    /\ UNCHANGED <<agentVars, serverVars, histVars>>

\* ------------------------------------------------------ the command store

\* Mutant: the command is stored for every id.
add_command_all(id) ==
    /\ rec => Cardinality({i \in DOMAIN trace : trace[i].op = "add"}) < MaxAdds
    /\ COMMANDS' = [i \in Ids |-> "Shutdown"]
    /\ trace' = IF rec
                THEN Append(trace, [op |-> "add", id |-> id,
                                    ret |-> "Shutdown", conn |-> 0])
                ELSE trace
    /\ UNCHANGED rows
    /\ UNCHANGED <<agentVars, connVars>>
    /\ UNCHANGED <<prePop, cause, wlog, acked, sent, failed, tasked>>
    /\ UNCHANGED <<rec, written, codecVars, clockVars, lockVars, procVars>>

\* Mutant: a second add_command takes the pending command away.
add_command_toggle(id) ==
    /\ rec => Cardinality({i \in DOMAIN trace : trace[i].op = "add"}) < MaxAdds
    /\ COMMANDS' = [COMMANDS EXCEPT ![id] = IF @ = "None" THEN "Shutdown" ELSE "None"]
    /\ trace' = IF rec
                THEN Append(trace, [op |-> "add", id |-> id,
                                    ret |-> "Shutdown", conn |-> 0])
                ELSE trace
    /\ UNCHANGED rows
    /\ UNCHANGED <<agentVars, connVars>>
    /\ UNCHANGED <<prePop, cause, wlog, acked, sent, failed, tasked>>
    /\ UNCHANGED <<rec, written, codecVars, clockVars, lockVars, procVars>>

\* add_command(collector_id, Shutdown), called by shutdown_collector.
add_command(id) ==
    /\ rec => Cardinality({i \in DOMAIN trace : trace[i].op = "add"}) < MaxAdds
    /\ COMMANDS' = [COMMANDS EXCEPT ![id] = "Shutdown"]
    /\ trace' = IF rec
                THEN Append(trace, [op |-> "add", id |-> id,
                                    ret |-> "Shutdown", conn |-> 0])
                ELSE trace
    /\ UNCHANGED rows
    /\ UNCHANGED <<agentVars, connVars>>
    /\ UNCHANGED <<prePop, cause, wlog, acked, sent, failed, tasked>>
    /\ UNCHANGED <<rec, written, codecVars, clockVars, lockVars, procVars>>

\* ------------------------------------------------------------------ Next

AgentStep(a) ==
    \/ collect_data(a)
    \/ main_recv(a)
    \/ connect_ok(a)
    \/ connect_fail(a)
    \/ pop_front(a)
    \/ write_ok(a)
    \/ write_fail(a)
    \/ read_err(a)
    \/ read_zero(a)
    \/ read_response(a)
    \/ rw_write_ok(a)
    \/ rw_write_fail(a)
    \/ rw_read_fail(a)
    \/ rw_read_response(a)

HandlerStep(c) ==
    \/ handler_read(c)
    \/ handler_read_partial(c)
    \/ handler_read_zero(c)
    \/ handler_read_err(c)
    \/ handler_insert_ok(c)
    \/ handler_insert_fail(c)
    \/ handler_write(c)
    \/ handler_write_err(c)
    \/ handler_killed(c)

Next ==
    \/ \E a \in Agents : AgentStep(a)
    \/ \E c \in Conns : HandlerStep(c)
    \/ \E c \in Conns : conn_reset(c)
    \/ \E id \in Agents : add_command(id)

Spec == Init /\ [][Next]_vars

\* WF on every step the threads and tasks take by themselves; none on the
\* faults (a failed connect, a reset, a stopped server, a partial read, a
\* failed insert) nor on the administrative call.
Fairness ==
    /\ \A a \in Agents :
         /\ WF_vars(collect_data(a))
         /\ WF_vars(main_recv(a))
         /\ WF_vars(connect_ok(a))
         /\ WF_vars(pop_front(a))
         /\ WF_vars(write_ok(a) \/ write_fail(a))
         /\ WF_vars(read_err(a) \/ read_zero(a) \/ read_response(a))
         /\ WF_vars(rw_write_ok(a) \/ rw_write_fail(a))
         /\ WF_vars(rw_read_fail(a) \/ rw_read_response(a))
    /\ \A c \in Conns :
         /\ WF_vars(handler_read(c) \/ handler_read_zero(c) \/ handler_read_err(c))
         /\ SF_vars(handler_insert_ok(c))
         /\ WF_vars(handler_write(c) \/ handler_write_err(c))

FairSpec == Spec /\ Fairness

\* ------------------------------------------- the server and recorded peers
\* The connection handlers and the command store, driven by peers that
\* speak send_queue's protocol for any collector id: a frame is written,
\* then its response is read. The store's calls and the frames are
\* recorded; the responses of a connection stay in s2c. The connections
\* stay up and the server runs on: of the faults only the failed INSERT
\* happens here.

\* The frames written so far, and the commands a peer may write next: the
\* metric values of every SubmitData differ from those of the ones before.
Written == UNION {{<<c, i>> : i \in DOMAIN written[c]} : c \in Peers}

WorkRequests == {RequestWork(id) : id \in Ids}

Submissions == {SubmitData(id, Cardinality(Written) + 1) : id \in Ids}

ServerInit ==
    /\ sampled = [a \in Agents |-> 0]
    /\ chan = [a \in Agents |-> <<>>]
    /\ queue = [a \in Agents |-> <<>>]
    /\ pc = [a \in Agents |-> "recv"]
    /\ command = [a \in Agents |-> NoFrame]
    /\ stream = [a \in Agents |-> 0]
    /\ result = [a \in Agents |-> "None"]
    /\ nconn = MaxConn
    /\ net = [c \in Conns |-> "up"]
    /\ cliOpen = [c \in Conns |-> TRUE]
    /\ c2s = [c \in Conns |-> <<>>]
    /\ s2c = [c \in Conns |-> <<>>]
    /\ hpc = [c \in Conns |-> "read"]
    /\ hcmd = [c \in Conns |-> NoCmd]
    /\ hresp = [c \in Conns |-> "None"]
    /\ rows = <<>>
    /\ COMMANDS = [id \in Ids |-> "None"]
    /\ prePop = [a \in Agents |-> <<>>]
    /\ cause = [a \in Agents |-> "none"]
    /\ wlog = [a \in Agents |-> <<>>]
    /\ acked = [a \in Agents |-> {}]
    /\ sent = <<>>
    /\ failed = {}
    /\ tasked = [a \in Agents |-> FALSE]
    /\ rec = TRUE
    /\ trace = <<>>
    /\ written = [c \in Conns |-> <<>>]
    /\ cstep = "idle"
    /\ given = NoCommand
    /\ stamped = 0
    /\ buffer = <<>>
    /\ damage = NoDamage
    /\ decoded = Panic
    /\ Started
    /\ ClockInit

\* stream.write_all(&frame), by a peer that has got the response to every
\* frame it wrote before. The connections are numbered in the order of
\* their first frames.
peer_write(c, cmd) ==
    /\ cliOpen[c] /\ net[c] = "up"
    /\ hpc[c] \notin {"done", "dead"}
    /\ Cardinality(Written) < MaxFrames
    /\ \A d \in Peers : d < c => written[d] # <<>>
    /\ Len(s2c[c]) = Len(written[c])
    /\ c2s' = [c2s EXCEPT ![c] = Append(@, encode_v1(cmd))]
    /\ written' = [written EXCEPT ![c] = Append(@, cmd)]
    /\ UNCHANGED <<nconn, net, cliOpen, s2c, hpc, hcmd, hresp>>
    /\ UNCHANGED <<agentVars, serverVars>>
    /\ UNCHANGED <<prePop, cause, wlog, acked, sent, failed, tasked>>
    /\ UNCHANGED <<rec, trace, codecVars, clockVars, lockVars, procVars>>

\* The command store: peers that ask for work, and the administrative call.
StoreNext ==
    \/ \E c \in Peers : \E cmd \in WorkRequests : peer_write(c, cmd)
    \/ \E c \in Peers : handler_read(c)
    \/ \E c \in Peers : handler_write(c)
    \/ \E id \in Ids : add_command(id)

StoreSpec == ServerInit /\ [][StoreNext]_vars

\* The persistence: peers that submit data.
SubmitNext ==
    \/ \E c \in Peers : \E cmd \in Submissions : peer_write(c, cmd)
    \/ \E c \in Peers : handler_read(c)
    \/ \E c \in Peers : handler_insert_ok(c)
    \/ \E c \in Peers : handler_insert_fail(c)
    \/ \E c \in Peers : handler_write(c)

SubmitSpec == ServerInit /\ [][SubmitNext]_vars

\* A peer that does not wait for the response before it writes its next
\* frame.
peer_write_ahead(c, cmd) ==
    /\ cliOpen[c] /\ net[c] = "up"
    /\ hpc[c] \notin {"done", "dead"}
    /\ Cardinality(Written) < MaxFrames
    /\ \A d \in Peers : d < c => written[d] # <<>>
    /\ c2s' = [c2s EXCEPT ![c] = Append(@, encode_v1(cmd))]
    /\ written' = [written EXCEPT ![c] = Append(@, cmd)]
    /\ UNCHANGED <<nconn, net, cliOpen, s2c, hpc, hcmd, hresp>>
    /\ UNCHANGED <<agentVars, serverVars>>
    /\ UNCHANGED <<prePop, cause, wlog, acked, sent, failed, tasked>>
    /\ UNCHANGED <<rec, trace, codecVars, clockVars, lockVars, procVars>>

\* socket.read returns the bytes of several frames at once: decode_v1 reads
\* the first by its payload_size and the rest of the buffer is never looked
\* at.
handler_read_coalesced(c) ==
    /\ hpc[c] = "read"
    /\ net[c] = "up"
    /\ Len(c2s[c]) >= 2
    /\ decode_ok(Head(c2s[c]))
    /\ \E k \in 2..Len(c2s[c]) :
           c2s' = [c2s EXCEPT ![c] = SubSeq(@, k + 1, Len(@))]
    /\ LET cmd == decode_v1(Head(c2s[c])) IN
       /\ hcmd' = [hcmd EXCEPT ![c] = cmd]
       /\ htimestamp' = [htimestamp EXCEPT ![c] = (Head(c2s[c])).timestamp]
       /\ IF cmd.kind = "RequestWork"
          THEN /\ hresp' = [hresp EXCEPT ![c] =
                     IF COMMANDS[cmd.cid] # "None" THEN "Task" ELSE "NoWork"]
               /\ COMMANDS' = [COMMANDS EXCEPT ![cmd.cid] = "None"]
               /\ hpc' = [hpc EXCEPT ![c] = "write"]
          ELSE /\ hpc' = [hpc EXCEPT ![c] = "insert"]
               /\ UNCHANGED <<hresp, COMMANDS>>
       /\ trace' = IF rec /\ cmd.kind = "RequestWork"
                   THEN Append(trace, [op |-> "get", id |-> cmd.cid,
                                       ret |-> COMMANDS[cmd.cid], conn |-> c])
                   ELSE trace
    /\ UNCHANGED <<nconn, net, cliOpen, s2c>>
    /\ UNCHANGED rows
    /\ UNCHANGED <<agentVars, prePop, cause, wlog, acked, sent, failed, tasked>>
    /\ UNCHANGED <<rec, written, codecVars, procVars>>
    /\ UNCHANGED <<now, received, encoded, lockVars>>

\* A second passes on the system clock.
tick ==
    /\ now < MaxTime
    /\ now' = now + 1
    /\ UNCHANGED <<htimestamp, received, encoded, lockVars>>
    /\ UNCHANGED <<agentVars, connVars, serverVars>>
    /\ UNCHANGED <<prePop, cause, wlog, acked, sent, failed, tasked>>
    /\ UNCHANGED <<logVars, codecVars, procVars>>

\* The agent and the server while time passes. The faults are the ones
\* after which the agent sends a frame again: the connect that fails, and
\* the handler that ends while the agent waits for its response.
StampNext ==
    \/ \E a \in Agents :
           \/ collect_data(a)
           \/ main_recv(a)
           \/ connect_ok(a)
           \/ connect_fail(a)
           \/ pop_front(a)
           \/ write_ok(a)
           \/ read_zero(a)
           \/ read_response(a)
           \/ rw_write_ok(a)
           \/ rw_read_fail(a)
           \/ rw_read_response(a)
    \/ \E c \in Conns :
           \/ handler_read(c)
           \/ handler_read_zero(c)
           \/ handler_insert_ok(c)
           \/ handler_write(c)
           \/ handler_killed(c)
    \/ tick

StampSpec == Init /\ [][StampNext]_vars

\* ------------------------------------------------- the store's mutex
\* The calls of the store step by step: lock(), then the insert or the
\* remove, at whose end the guard is dropped.

\* socket.read and decode_v1; a RequestWork goes on to get_commands.
handler_decode(c) ==
    /\ hpc[c] = "read"
    /\ net[c] = "up"
    /\ c2s[c] # <<>>
    /\ decode_ok(Head(c2s[c]))
    /\ c2s' = [c2s EXCEPT ![c] = Tail(@)]
    /\ hcmd' = [hcmd EXCEPT ![c] = decode_v1(Head(c2s[c]))]
    /\ htimestamp' = [htimestamp EXCEPT ![c] = Head(c2s[c]).timestamp]
    /\ hpc' = [hpc EXCEPT ![c] =
                 IF decode_v1(Head(c2s[c])).kind = "RequestWork"
                 THEN "lock" ELSE "insert"]
    /\ UNCHANGED <<nconn, net, cliOpen, s2c, hresp>>
    /\ UNCHANGED <<agentVars, serverVars>>
    /\ UNCHANGED <<prePop, cause, wlog, acked, sent, failed, tasked>>
    /\ UNCHANGED <<logVars, codecVars, procVars, now, received, encoded, lockVars>>

\* get_commands: COMMANDS.lock() returns the guard.
get_commands_lock(c) ==
    /\ hpc[c] = "lock"
    /\ lock = Free
    /\ lock' = [who |-> "handler", n |-> c]
    /\ hpc' = [hpc EXCEPT ![c] = "held"]
    /\ UNCHANGED <<nconn, net, cliOpen, c2s, s2c, hcmd, hresp>>
    /\ UNCHANGED <<agentVars, serverVars>>
    /\ UNCHANGED <<prePop, cause, wlog, acked, sent, failed, tasked>>
    /\ UNCHANGED <<logVars, codecVars, procVars, clockVars, apc>>

\* Mutant: the guard outlives get_commands and is never dropped.
get_commands_remove_leaks(c) ==
    /\ hpc[c] = "held"
    /\ lock = [who |-> "handler", n |-> c]
    /\ hresp' = [hresp EXCEPT ![c] =
                   IF COMMANDS[hcmd[c].cid] # "None" THEN "Task" ELSE "NoWork"]
    /\ COMMANDS' = [COMMANDS EXCEPT ![hcmd[c].cid] = "None"]
    /\ trace' = IF rec
                THEN Append(trace, [op |-> "get", id |-> hcmd[c].cid,
                                    ret |-> COMMANDS[hcmd[c].cid], conn |-> c])
                ELSE trace
    /\ hpc' = [hpc EXCEPT ![c] = "write"]
    /\ UNCHANGED <<nconn, net, cliOpen, c2s, s2c, hcmd>>
    /\ UNCHANGED <<agentVars, rows>>
    /\ UNCHANGED <<prePop, cause, wlog, acked, sent, failed, tasked>>
    /\ UNCHANGED <<rec, written, codecVars, procVars, clockVars, lockVars>>

\* get_commands: commands.remove(&collector_id); the guard is dropped as
\* the function returns, and the handler has its response to write.
get_commands_remove(c) ==
    /\ hpc[c] = "held"
    /\ lock = [who |-> "handler", n |-> c]
    /\ hresp' = [hresp EXCEPT ![c] =
                   IF COMMANDS[hcmd[c].cid] # "None" THEN "Task" ELSE "NoWork"]
    /\ COMMANDS' = [COMMANDS EXCEPT ![hcmd[c].cid] = "None"]
    /\ trace' = IF rec
                THEN Append(trace, [op |-> "get", id |-> hcmd[c].cid,
                                    ret |-> COMMANDS[hcmd[c].cid], conn |-> c])
                ELSE trace
    /\ lock' = Free
    /\ hpc' = [hpc EXCEPT ![c] = "write"]
    /\ UNCHANGED <<nconn, net, cliOpen, c2s, s2c, hcmd>>
    /\ UNCHANGED <<agentVars, rows>>
    /\ UNCHANGED <<prePop, cause, wlog, acked, sent, failed, tasked>>
    /\ UNCHANGED <<rec, written, codecVars, procVars, clockVars, apc>>

\* A request to shut a collector down arrives: shutdown_collector calls
\* add_command(uuid, Shutdown).
shutdown_collector(p, id) ==
    /\ apc[p].at = "idle"
    /\ rec => Cardinality({i \in DOMAIN trace : trace[i].op = "add"})
                  + Cardinality({q \in Admins : apc[q].at # "idle"}) < MaxAdds
    /\ apc' = [apc EXCEPT ![p] = [at |-> "lock", id |-> id]]
    /\ UNCHANGED <<agentVars, connVars, serverVars>>
    /\ UNCHANGED <<prePop, cause, wlog, acked, sent, failed, tasked>>
    /\ UNCHANGED <<logVars, codecVars, procVars, clockVars, lock>>

\* add_command: COMMANDS.lock() returns the guard.
add_command_lock(p) ==
    /\ apc[p].at = "lock"
    /\ lock = Free
    /\ lock' = [who |-> "admin", n |-> p]
    /\ apc' = [apc EXCEPT ![p].at = "held"]
    /\ UNCHANGED <<agentVars, connVars, serverVars>>
    /\ UNCHANGED <<prePop, cause, wlog, acked, sent, failed, tasked>>
    /\ UNCHANGED <<logVars, codecVars, procVars, clockVars>>

\* add_command: commands.insert(collector_id, command); the guard is
\* dropped as the function returns.
add_command_insert(p) ==
    /\ apc[p].at = "held"
    /\ lock = [who |-> "admin", n |-> p]
    /\ COMMANDS' = [COMMANDS EXCEPT ![apc[p].id] = "Shutdown"]
    /\ trace' = IF rec
                THEN Append(trace, [op |-> "add", id |-> apc[p].id,
                                    ret |-> "Shutdown", conn |-> 0])
                ELSE trace
    /\ lock' = Free
    /\ apc' = [apc EXCEPT ![p] = [at |-> "idle", id |-> 0]]
    /\ UNCHANGED rows
    /\ UNCHANGED <<agentVars, connVars>>
    /\ UNCHANGED <<prePop, cause, wlog, acked, sent, failed, tasked>>
    /\ UNCHANGED <<rec, written, codecVars, procVars, clockVars>>

\* The server with its connections accepted; the calls are not recorded.
LockInit ==
    /\ sampled = [a \in Agents |-> 0]
    /\ chan = [a \in Agents |-> <<>>]
    /\ queue = [a \in Agents |-> <<>>]
    /\ pc = [a \in Agents |-> "recv"]
    /\ command = [a \in Agents |-> NoFrame]
    /\ stream = [a \in Agents |-> 0]
    /\ result = [a \in Agents |-> "None"]
    /\ nconn = MaxConn
    /\ net = [c \in Conns |-> "up"]
    /\ cliOpen = [c \in Conns |-> TRUE]
    /\ c2s = [c \in Conns |-> <<>>]
    /\ s2c = [c \in Conns |-> <<>>]
    /\ hpc = [c \in Conns |-> "read"]
    /\ hcmd = [c \in Conns |-> NoCmd]
    /\ hresp = [c \in Conns |-> "None"]
    /\ rows = <<>>
    /\ COMMANDS = [id \in Ids |-> "None"]
    /\ prePop = [a \in Agents |-> <<>>]
    /\ cause = [a \in Agents |-> "none"]
    /\ wlog = [a \in Agents |-> <<>>]
    /\ acked = [a \in Agents |-> {}]
    /\ sent = <<>>
    /\ failed = {}
    /\ tasked = [a \in Agents |-> FALSE]
    /\ rec = FALSE
    /\ trace = <<>>
    /\ written = [c \in Conns |-> <<>>]
    /\ cstep = "idle"
    /\ given = NoCommand
    /\ stamped = 0
    /\ buffer = <<>>
    /\ damage = NoDamage
    /\ decoded = Panic
    /\ Started
    /\ ClockInit

\* Handlers that serve the RequestWork of the agents and requests to
\* shutdown_collector for them, in any interleaving.
LockNext ==
    \/ \E c \in Peers : \E a \in Agents : peer_write(c, RequestWork(a))
    \/ \E c \in Peers : handler_decode(c)
    \/ \E c \in Peers : get_commands_lock(c)
    \/ \E c \in Peers : get_commands_remove(c)
    \/ \E c \in Peers : handler_write(c)
    \/ \E p \in Admins : \E id \in Agents : shutdown_collector(p, id)
    \/ \E p \in Admins : add_command_lock(p)
    \/ \E p \in Admins : add_command_insert(p)

\* The threads and tasks run on: WF on the steps a caller takes by itself,
\* SF on the acquisition, which another caller's turn interrupts; none on
\* the arrival of frames and requests.
LockFairness ==
    /\ \A c \in Peers :
           /\ WF_vars(handler_decode(c))
           /\ SF_vars(get_commands_lock(c))
           /\ WF_vars(get_commands_remove(c))
           /\ WF_vars(handler_write(c))
    /\ \A p \in Admins :
           /\ SF_vars(add_command_lock(p))
           /\ WF_vars(add_command_insert(p))

LockSpec == LockInit /\ [][LockNext]_vars /\ LockFairness

\* The order on a connection: peers that write ahead of the responses.
PipelineNext ==
    \/ \E c \in Peers : \E cmd \in Submissions : peer_write_ahead(c, cmd)
    \/ \E c \in Peers : handler_read(c)
    \/ \E c \in Peers : handler_read_coalesced(c)
    \/ \E c \in Peers : handler_insert_ok(c)
    \/ \E c \in Peers : handler_insert_fail(c)
    \/ \E c \in Peers : handler_write(c)

PipelineSpec == ServerInit /\ [][PipelineNext]_vars

\* What decode_v1 rejects: the frame with its magic number, its version or
\* its checksum changed.
Damaged(frame) ==
    {[frame EXCEPT !.magic = 0], [frame EXCEPT !.version = 0],
     [frame EXCEPT !.crc = NoCmd]}

\* A peer writes a frame that decode_v1 rejects.
peer_write_damaged(c, cmd) ==
    /\ cliOpen[c] /\ net[c] = "up"
    /\ hpc[c] \notin {"done", "dead"}
    /\ Cardinality(Written) < MaxFrames
    /\ \A d \in Peers : d < c => written[d] # <<>>
    /\ Len(s2c[c]) = Len(written[c])
    /\ \E frame \in Damaged(encode_v1(cmd)) :
           c2s' = [c2s EXCEPT ![c] = Append(@, frame)]
    /\ written' = [written EXCEPT ![c] = Append(@, cmd)]
    /\ UNCHANGED <<nconn, net, cliOpen, s2c, hpc, hcmd, hresp>>
    /\ UNCHANGED <<agentVars, serverVars>>
    /\ UNCHANGED <<prePop, cause, wlog, acked, sent, failed, tasked>>
    /\ UNCHANGED <<rec, trace, codecVars, clockVars, lockVars, procVars>>

\* The decode failure: peers whose frames may be damaged.
CorruptNext ==
    \/ \E c \in Peers : \E cmd \in Submissions : peer_write(c, cmd)
    \/ \E c \in Peers : \E cmd \in Submissions : peer_write_damaged(c, cmd)
    \/ \E c \in Peers : handler_read(c)
    \/ \E c \in Peers : handler_read_corrupt(c)
    \/ \E c \in Peers : handler_insert_ok(c)
    \/ \E c \in Peers : handler_write(c)

CorruptSpec == ServerInit /\ [][CorruptNext]_vars

\* ------------------------------------------- the agent's process ends
\* stream.read returns only part of a response (a stream has no message
\* boundaries): decode_response_v1 unwraps the error of deserialize and
\* main panics. Its locals are dropped as it unwinds: the stream, the queue
\* and the receiving end of the channel with what waits in it.
main_panics(a) ==
    /\ pc[a] \in {"read", "rw_read"}
    /\ net[stream[a]] = "up"
    /\ s2c[stream[a]] # <<>>
    /\ pc' = [pc EXCEPT ![a] = "panic"]
    /\ chan' = [chan EXCEPT ![a] = <<>>]
    /\ queue' = [queue EXCEPT ![a] = <<>>]
    /\ command' = [command EXCEPT ![a] = NoFrame]
    /\ cliOpen' = [c \in Conns |-> IF c = stream[a] THEN FALSE ELSE cliOpen[c]]
    /\ s2c' = [c \in Conns |-> IF c = stream[a] THEN <<>> ELSE s2c[c]]
    /\ net' = [c \in Conns |->
                IF c = stream[a] /\ hpc[c] \in {"dead", "done"}
                THEN "closed" ELSE net[c]]
    /\ UNCHANGED <<sampled, stream, result>>
    /\ UNCHANGED <<nconn, c2s, hpc, hcmd, hresp>>
    /\ UNCHANGED <<serverVars, histVars>>

\* Mutant: the failed send ends the sampler's loop: no sample is taken
\* after it.
collect_data_err_stops(a) ==
    /\ pc[a] = "panic"
    /\ sampled[a] < MaxSamples
    /\ sampled' = [sampled EXCEPT ![a] = MaxSamples]
    /\ errs' = [errs EXCEPT ![a] = @ + 1]
    /\ UNCHANGED <<chan, queue, pc, command, stream, result>>
    /\ UNCHANGED <<connVars, serverVars>>
    /\ UNCHANGED <<prePop, cause, wlog, acked, sent, failed, tasked, logVars, codecVars, clockVars, lockVars>>
    /\ UNCHANGED <<file, uuid, returned, generated>>

\* collect_data when the receiver is gone: tx.send returns Err, the error
\* is printed, and the pass of the loop ends like any other.
collect_data_err(a) ==
    /\ pc[a] = "panic"
    /\ sampled[a] < MaxSamples
    /\ sampled' = [sampled EXCEPT ![a] = @ + 1]
    /\ errs' = [errs EXCEPT ![a] = @ + 1]
    /\ UNCHANGED <<chan, queue, pc, command, stream, result>>
    /\ UNCHANGED <<connVars, serverVars>>
    /\ UNCHANGED <<prePop, cause, wlog, acked, sent, failed, tasked, logVars, codecVars, clockVars, lockVars>>
    /\ UNCHANGED <<file, uuid, returned, generated>>

\* The panic has left main: the process exits, the sampler with it.
process_exit(a) ==
    /\ pc[a] = "panic"
    /\ pc' = [pc EXCEPT ![a] = "exit"]
    /\ UNCHANGED <<sampled, chan, queue, command, stream, result>>
    /\ UNCHANGED <<connVars, serverVars, histVars>>

PanicNext ==
    \/ Next
    \/ \E a \in Agents : main_panics(a)
    \/ \E a \in Agents : collect_data_err(a)
    \/ \E a \in Agents : process_exit(a)

PanicSpec == Init /\ [][PanicNext]_vars

\* ------------------------------------------------- the agent's identity
\* The agent from the start of its process: get_uuid, then the sampler and
\* the delivery cycles, against a server that answers; the process is
\* stopped and started again. The file "uuid" is absent, or holds what an
\* earlier run wrote.
IdentityInit ==
    /\ sampled = [a \in Agents |-> 0]
    /\ chan = [a \in Agents |-> <<>>]
    /\ queue = [a \in Agents |-> <<>>]
    /\ pc = [a \in Agents |-> "start"]
    /\ command = [a \in Agents |-> NoFrame]
    /\ stream = [a \in Agents |-> 0]
    /\ result = [a \in Agents |-> "None"]
    /\ nconn = 0
    /\ net = [c \in Conns |-> "up"]
    /\ cliOpen = [c \in Conns |-> FALSE]
    /\ c2s = [c \in Conns |-> <<>>]
    /\ s2c = [c \in Conns |-> <<>>]
    /\ hpc = [c \in Conns |-> "idle"]
    /\ hcmd = [c \in Conns |-> NoCmd]
    /\ hresp = [c \in Conns |-> "None"]
    /\ rows = <<>>
    /\ COMMANDS = [id \in Ids |-> "None"]
    /\ prePop = [a \in Agents |-> <<>>]
    /\ cause = [a \in Agents |-> "none"]
    /\ wlog = [a \in Agents |-> <<>>]
    /\ acked = [a \in Agents |-> {}]
    /\ sent = <<>>
    /\ failed = {}
    /\ tasked = [a \in Agents |-> FALSE]
    /\ rec = FALSE
    /\ trace = <<>>
    /\ written = [c \in Conns |-> <<>>]
    /\ cstep = "idle"
    /\ given = NoCommand
    /\ stamped = 0
    /\ buffer = <<>>
    /\ damage = NoDamage
    /\ decoded = Panic
    /\ file \in [Agents -> {[exists |-> FALSE, text |-> <<>>]}
                          \cup {[exists |-> TRUE, text |-> to_string(v)] : v \in Ids}]
    /\ uuid = [a \in Agents |-> 0]
    /\ returned = [a \in Agents |-> <<>>]
    /\ generated = [a \in Agents |-> <<>>]
    /\ errs = [a \in Agents |-> 0]
    /\ ClockInit

\* Mutant: get_uuid generates a new identity on every call.
get_uuid_fresh(a) ==
    /\ pc[a] = "start"
    /\ \E v \in Ids :
          /\ generated' = [generated EXCEPT ![a] = Append(@, v)]
          /\ file' = [file EXCEPT ![a] = [exists |-> TRUE, text |-> to_string(v)]]
          /\ uuid' = [uuid EXCEPT ![a] = v]
          /\ returned' = [returned EXCEPT ![a] = Append(@, v)]
    /\ pc' = [pc EXCEPT ![a] = "recv"]
    /\ UNCHANGED <<sampled, chan, queue, command, stream, result>>
    /\ UNCHANGED <<connVars, serverVars>>
    /\ UNCHANGED <<prePop, cause, wlog, acked, sent, failed, tasked, logVars, codecVars, clockVars, lockVars, errs>>

\* get_uuid, then main goes on to its loop: the file is read and parsed if
\* it exists; otherwise a new identity is generated and written.
get_uuid(a) ==
    /\ pc[a] = "start"
    /\ IF file[a].exists
       THEN /\ parse(file[a].text) # ParseError
            /\ uuid' = [uuid EXCEPT ![a] = parse(file[a].text)]
            /\ returned' = [returned EXCEPT ![a] = Append(@, parse(file[a].text))]
            /\ UNCHANGED <<file, generated>>
       ELSE \E v \in Ids :
              /\ generated' = [generated EXCEPT ![a] = Append(@, v)]
              /\ file' = [file EXCEPT ![a] =
                            [exists |-> TRUE, text |-> to_string(v)]]
              /\ uuid' = [uuid EXCEPT ![a] = v]
              /\ returned' = [returned EXCEPT ![a] = Append(@, v)]
    /\ pc' = [pc EXCEPT ![a] = "recv"]
    /\ UNCHANGED <<sampled, chan, queue, command, stream, result>>
    /\ UNCHANGED <<connVars, serverVars>>
    /\ UNCHANGED <<prePop, cause, wlog, acked, sent, failed, tasked, logVars, codecVars, clockVars, lockVars, errs>>

\* The process is stopped and started again: main's locals, the channel
\* and the stream are gone, the file stays.
restart(a) ==
    /\ pc[a] # "start"
    /\ Len(returned[a]) < MaxRuns
    /\ pc' = [pc EXCEPT ![a] = "start"]
    /\ uuid' = [uuid EXCEPT ![a] = 0]
    /\ chan' = [chan EXCEPT ![a] = <<>>]
    /\ queue' = [queue EXCEPT ![a] = <<>>]
    /\ command' = [command EXCEPT ![a] = NoFrame]
    /\ stream' = [stream EXCEPT ![a] = 0]
    /\ result' = [result EXCEPT ![a] = "None"]
    /\ cause' = [cause EXCEPT ![a] = "none"]
    /\ prePop' = [prePop EXCEPT ![a] = <<>>]
    /\ cliOpen' = [c \in Conns |-> IF c = stream[a] THEN FALSE ELSE cliOpen[c]]
    /\ s2c' = [c \in Conns |-> IF c = stream[a] THEN <<>> ELSE s2c[c]]
    /\ net' = [c \in Conns |->
                IF c = stream[a] /\ hpc[c] \in {"dead", "done"}
                THEN "closed" ELSE net[c]]
    /\ UNCHANGED <<sampled, nconn, c2s, hpc, hcmd, hresp>>
    /\ UNCHANGED <<serverVars, wlog, acked, sent, failed, tasked, logVars, codecVars, clockVars, lockVars>>
    /\ UNCHANGED <<file, returned, generated, errs>>

IdentityNext ==
    \/ \E a \in Agents : get_uuid(a)
    \/ \E a \in Agents : restart(a)
    \/ \E a \in Agents :
          \/ collect_data(a)
          \/ main_recv(a)
          \/ connect_ok(a)
          \/ connect_fail(a)
          \/ pop_front(a)
          \/ write_ok(a)
          \/ read_response(a)
          \/ rw_write_ok(a)
          \/ rw_read_response(a)
    \/ \E c \in Conns :
          \/ handler_read(c)
          \/ handler_read_zero(c)
          \/ handler_insert_ok(c)
          \/ handler_write(c)

IdentitySpec == IdentityInit /\ [][IdentityNext]_vars

\* --------------------------------------------------------- the responses
\* CollectorResponseV1: Ack, NoWork, Task(TaskType), and TaskType's one
\* variant.
Ack == [kind |-> "Ack", task |-> "None"]
NoWork == [kind |-> "NoWork", task |-> "None"]
Task(t) == [kind |-> "Task", task |-> t]

Responses == {Ack, NoWork, Task("Shutdown")}

\* Mutant: the response is given the header of a frame.
encode_response_v1_framed(r) ==
    to_be_bytes(MAGIC_NUMBER, 2) \o to_be_bytes(VERSION_NUMBER, 2)
        \o (IF r.kind = "Ack" THEN to_le_bytes(0, 4)
            ELSE IF r.kind = "NoWork" THEN to_le_bytes(1, 4)
            ELSE to_le_bytes(2, 4) \o to_le_bytes(0, 4))

\* Mutant: the variant's index is written, the task it carries is not, and
\* NoWork is written like Ack.
encode_response_v1_short(r) ==
    IF r.kind = "Task" THEN to_le_bytes(2, 4) ELSE to_le_bytes(0, 4)

\* encode_response_v1: bincode::serialize of the enum, the variant's index
\* as a u32 and then the variant's fields.
encode_response_v1(r) ==
    IF r.kind = "Ack" THEN to_le_bytes(0, 4)
    ELSE IF r.kind = "NoWork" THEN to_le_bytes(1, 4)
    ELSE to_le_bytes(2, 4) \o to_le_bytes(0, 4)

\* decode_response_v1: bincode::deserialize, unwrapped: a panic for an
\* unknown variant or for bytes that end early; bytes after the value are
\* ignored.
decode_response_v1(buf) ==
    IF Len(buf) < 4 THEN Panic
    ELSE LET variant == from_le_bytes(SubSeq(buf, 1, 4)) IN
         IF variant = 0 THEN [ok |-> TRUE, response |-> Ack]
         ELSE IF variant = 1 THEN [ok |-> TRUE, response |-> NoWork]
         ELSE IF variant = 2 /\ Len(buf) >= 8
                             /\ from_le_bytes(SubSeq(buf, 5, 8)) = 0
         THEN [ok |-> TRUE, response |-> Task("Shutdown")]
         ELSE Panic

\* --------------------------------------------------- one frame on its way
\* A command is encoded, the buffer reaches decode_v1 as it is, with one
\* byte changed, or cut short.

\* average_cpu_usage is the f32's bit pattern: 37.5, and a NaN.
Frames ==
    {<<1700000000, [kind |-> "SubmitData", collector_id |-> 42,
                    total_memory |-> 2000000000, used_memory |-> 800000000,
                    average_cpu_usage |-> 1108770816]>>,
     <<0, [kind |-> "SubmitData", collector_id |-> 2147483647,
           total_memory |-> 1, used_memory |-> 2147483647,
           average_cpu_usage |-> 2143289344]>>,
     <<2147483647, [kind |-> "RequestWork", collector_id |-> 42]>>,
     <<1, [kind |-> "RequestWork", collector_id |-> 0]>>}

CodecInit ==
    /\ sampled = [a \in Agents |-> 0]
    /\ chan = [a \in Agents |-> <<>>]
    /\ queue = [a \in Agents |-> <<>>]
    /\ pc = [a \in Agents |-> "recv"]
    /\ command = [a \in Agents |-> NoFrame]
    /\ stream = [a \in Agents |-> 0]
    /\ result = [a \in Agents |-> "None"]
    /\ nconn = 0
    /\ net = [c \in Conns |-> "up"]
    /\ cliOpen = [c \in Conns |-> FALSE]
    /\ c2s = [c \in Conns |-> <<>>]
    /\ s2c = [c \in Conns |-> <<>>]
    /\ hpc = [c \in Conns |-> "idle"]
    /\ hcmd = [c \in Conns |-> NoCmd]
    /\ hresp = [c \in Conns |-> "None"]
    /\ rows = <<>>
    /\ COMMANDS = [id \in Ids |-> "None"]
    /\ prePop = [a \in Agents |-> <<>>]
    /\ cause = [a \in Agents |-> "none"]
    /\ wlog = [a \in Agents |-> <<>>]
    /\ acked = [a \in Agents |-> {}]
    /\ sent = <<>>
    /\ failed = {}
    /\ tasked = [a \in Agents |-> FALSE]
    /\ rec = FALSE
    /\ trace = <<>>
    /\ written = [c \in Conns |-> <<>>]
    /\ cstep = "encode"
    /\ \E f \in Frames : stamped = f[1] /\ given = f[2]
    /\ buffer = <<>>
    /\ damage = NoDamage
    /\ decoded = Panic
    /\ Started
    /\ ClockInit

protocolVars ==
    <<agentVars, connVars, serverVars,
      prePop, cause, wlog, acked, sent, failed, tasked, logVars, procVars,
      clockVars, lockVars>>

\* encode_v1(&command).
encode ==
    /\ cstep = "encode"
    /\ given \notin Responses
    /\ buffer' = encode_v1_bytes(stamped, given)
    /\ cstep' = "wire"
    /\ UNCHANGED <<given, stamped, damage, decoded>>
    /\ UNCHANGED protocolVars

\* One byte of the buffer becomes another value.
set_byte ==
    /\ cstep = "wire" /\ damage = NoDamage
    /\ \E i \in DOMAIN buffer : \E v \in Bytes \ {buffer[i]} :
           /\ buffer' = [buffer EXCEPT ![i] = v]
           /\ damage' = [op |-> "set", at |-> i]
    /\ UNCHANGED <<cstep, given, stamped, decoded>>
    /\ UNCHANGED protocolVars

\* Only the first n bytes of the buffer arrive.
truncate ==
    /\ cstep = "wire" /\ damage = NoDamage
    /\ \E n \in 0..(Len(buffer) - 1) :
           /\ buffer' = SubSeq(buffer, 1, n)
           /\ damage' = [op |-> "cut", at |-> n]
    /\ UNCHANGED <<cstep, given, stamped, decoded>>
    /\ UNCHANGED protocolVars

\* decode_v1(&buf[0..n]).
decode ==
    /\ cstep = "wire"
    /\ given \notin Responses
    /\ decoded' = decode_v1_bytes(buffer)
    /\ cstep' = "done"
    /\ UNCHANGED <<given, stamped, buffer, damage>>
    /\ UNCHANGED protocolVars

CodecNext ==
    \/ encode
    \/ set_byte
    \/ truncate
    \/ decode

CodecSpec == CodecInit /\ [][CodecNext]_vars

\* ------------------------------------------------ one response on its way
\* A response is encoded, and the bytes reach decode_response_v1 as they
\* are, with one byte changed, or cut short.
ResponseInit ==
    /\ sampled = [a \in Agents |-> 0]
    /\ chan = [a \in Agents |-> <<>>]
    /\ queue = [a \in Agents |-> <<>>]
    /\ pc = [a \in Agents |-> "recv"]
    /\ command = [a \in Agents |-> NoFrame]
    /\ stream = [a \in Agents |-> 0]
    /\ result = [a \in Agents |-> "None"]
    /\ nconn = 0
    /\ net = [c \in Conns |-> "up"]
    /\ cliOpen = [c \in Conns |-> FALSE]
    /\ c2s = [c \in Conns |-> <<>>]
    /\ s2c = [c \in Conns |-> <<>>]
    /\ hpc = [c \in Conns |-> "idle"]
    /\ hcmd = [c \in Conns |-> NoCmd]
    /\ hresp = [c \in Conns |-> "None"]
    /\ rows = <<>>
    /\ COMMANDS = [id \in Ids |-> "None"]
    /\ prePop = [a \in Agents |-> <<>>]
    /\ cause = [a \in Agents |-> "none"]
    /\ wlog = [a \in Agents |-> <<>>]
    /\ acked = [a \in Agents |-> {}]
    /\ sent = <<>>
    /\ failed = {}
    /\ tasked = [a \in Agents |-> FALSE]
    /\ rec = FALSE
    /\ trace = <<>>
    /\ written = [c \in Conns |-> <<>>]
    /\ cstep = "encode"
    /\ stamped = 0
    /\ given \in Responses
    /\ buffer = <<>>
    /\ damage = NoDamage
    /\ decoded = Panic
    /\ Started
    /\ ClockInit

encode_response ==
    /\ cstep = "encode"
    /\ given \in Responses
    /\ buffer' = encode_response_v1(given)
    /\ cstep' = "wire"
    /\ UNCHANGED <<given, stamped, damage, decoded>>
    /\ UNCHANGED protocolVars

\* decode_response_v1(&buf[0..bytes_read]).
decode_response ==
    /\ cstep = "wire"
    /\ given \in Responses
    /\ decoded' = decode_response_v1(buffer)
    /\ cstep' = "done"
    /\ UNCHANGED <<given, stamped, buffer, damage>>
    /\ UNCHANGED protocolVars

ResponseNext ==
    \/ encode_response
    \/ set_byte
    \/ truncate
    \/ decode_response

ResponseSpec == ResponseInit /\ [][ResponseNext]_vars

\* ------------------------------------------- both directions of the wire
\* A command on its way to the server or a response on its way back.
WireInit ==
    /\ sampled = [a \in Agents |-> 0]
    /\ chan = [a \in Agents |-> <<>>]
    /\ queue = [a \in Agents |-> <<>>]
    /\ pc = [a \in Agents |-> "recv"]
    /\ command = [a \in Agents |-> NoFrame]
    /\ stream = [a \in Agents |-> 0]
    /\ result = [a \in Agents |-> "None"]
    /\ nconn = 0
    /\ net = [c \in Conns |-> "up"]
    /\ cliOpen = [c \in Conns |-> FALSE]
    /\ c2s = [c \in Conns |-> <<>>]
    /\ s2c = [c \in Conns |-> <<>>]
    /\ hpc = [c \in Conns |-> "idle"]
    /\ hcmd = [c \in Conns |-> NoCmd]
    /\ hresp = [c \in Conns |-> "None"]
    /\ rows = <<>>
    /\ COMMANDS = [id \in Ids |-> "None"]
    /\ prePop = [a \in Agents |-> <<>>]
    /\ cause = [a \in Agents |-> "none"]
    /\ wlog = [a \in Agents |-> <<>>]
    /\ acked = [a \in Agents |-> {}]
    /\ sent = <<>>
    /\ failed = {}
    /\ tasked = [a \in Agents |-> FALSE]
    /\ rec = FALSE
    /\ trace = <<>>
    /\ written = [c \in Conns |-> <<>>]
    /\ cstep = "encode"
    /\ \/ \E f \in Frames : stamped = f[1] /\ given = f[2]
       \/ stamped = 0 /\ given \in Responses
    /\ buffer = <<>>
    /\ damage = NoDamage
    /\ decoded = Panic
    /\ Started
    /\ ClockInit

WireNext ==
    \/ encode
    \/ encode_response
    \/ set_byte
    \/ truncate
    \/ decode
    \/ decode_response

WireSpec == WireInit /\ [][WireNext]_vars

\* ------------------------------------------------------------- vocabulary

\* Frames pushed onto the delivery queue so far are numbered 1..Pushed(a).
Pushed(a) == sampled[a] - Len(chan[a])

QueueSeqs(a) == {queue[a][i].payload.seq : i \in DOMAIN queue[a]}

Count(s, P(_)) == Cardinality({i \in DOMAIN s : P(s[i])})

IsAckFor(e, a, n) ==
    e.resp = "Ack" /\ e.cmd = SubmitData(a, n)

IsRow(r, a, n) == r = [cid |-> a, seq |-> n]

IsRequestWorkOn(e, c) == e.conn = c /\ e.cmd.kind = "RequestWork"

IsSubmitOn(e, c) == e.conn = c /\ e.cmd.kind = "SubmitData"

FrameErrors == {"UnableToSendData", "UnableToReceiveData"}

\* The rows of one agent in insertion order, as frame numbers.
RowSeqs(a) ==
    LET mine == SelectSeq(rows, LAMBDA r : r.cid = a)
    IN  [i \in DOMAIN mine |-> mine[i].seq]

\* A sequence with every repeated element dropped (first occurrences kept).
RECURSIVE Collapse(_)
Collapse(s) ==
    IF s = <<>> THEN <<>>
    ELSE LET init == Collapse(SubSeq(s, 1, Len(s) - 1))
             last == s[Len(s)]
         IN  IF \E i \in DOMAIN init : init[i] = last
             THEN init ELSE Append(init, last)

\* The last cycle ended while a frame was popped and not acknowledged.
EndedInFlight(a) ==
    /\ pc[a] = "recv"
    /\ cause[a] \in {"write", "read_err", "zero", "not_ack"}

\* ------------------------------------------------------------------ C1
\* C1: no frame is lost: every frame ever pushed onto the delivery queue is
\* still in the queue, or is the frame in flight, or was answered with Ack.
C1_NoFrameLost ==
    \A a \in Agents : \A n \in 1..Pushed(a) :
        \/ n \in QueueSeqs(a)
        \/ command[a].payload.seq = n
        \/ n \in acked[a]

\* ------------------------------------------------------------------ C2
\* C2: whenever send_queue has returned one of its errors with a frame in
\* flight, that frame is back at the front: the queue is the queue as it was
\* before the pop.
C2_InFlightRequeued ==
    \A a \in Agents :
        (EndedInFlight(a) /\ result[a] \in FrameErrors) => queue[a] = prePop[a]

\* ------------------------------------------------------------------ C3
\* C3: after a failed write, a zero-byte read or a response that is not Ack,
\* send_queue has returned an error, the queue equals the queue as it was
\* just before the frame was popped, and nothing was written after the frame.
C3_PopUndone ==
    \A a \in Agents :
        (pc[a] = "recv" /\ cause[a] \in {"write", "zero", "not_ack"}) =>
            /\ queue[a] = prePop[a]
            /\ result[a] =
                 (IF cause[a] = "write" THEN "UnableToSendData"
                                        ELSE "UnableToReceiveData")
            /\ ~cliOpen[stream[a]]
            /\ cause[a] # "write" =>
                 wlog[a][Len(wlog[a])] =
                     [conn |-> stream[a], cmd |-> Head(queue[a]).payload]
            /\ cause[a] = "write" =>
                 \A i \in DOMAIN wlog[a] :
                     ~(wlog[a][i].conn = stream[a] /\
                       wlog[a][i].cmd = Head(queue[a]).payload)

\* A zero-byte read with two frames behind the frame in flight.
C3_Witness ==
    \E a \in Agents :
        /\ pc[a] = "recv" /\ cause[a] = "zero"
        /\ Len(queue[a]) = 3
        /\ queue[a] = prePop[a]

\* ------------------------------------------------------------------ C4
\* C4: when the agent has written a frame, every frame it wrote earlier and
\* that was queued before this one has been acknowledged: a frame whose send
\* failed is written again before any frame queued after it.
C4_RetryFirst ==
    \A a \in Agents :
        pc[a] = "read" =>
            \A i \in DOMAIN wlog[a] :
                (wlog[a][i].cmd.kind = "SubmitData" /\
                 wlog[a][i].cmd.seq < command[a].payload.seq)
                    => wlog[a][i].cmd.seq \in acked[a]

\* ------------------------------------------------------------------ C5
\* C5: the rows persisted for one agent, repeated rows collapsed, are a
\* prefix of the sequence in which its frames were pushed: 1, 2, ..., k.
C5_RowsPrefix ==
    \A a \in Agents :
        LET r == Collapse(RowSeqs(a))
        IN  \A i \in DOMAIN r : r[i] = i

\* ------------------------------------------------------------------ C6
\* C6: when a cycle has ended with a frame in flight that the server has
\* persisted and whose Ack the agent has not read, the frame is at the front
\* of the queue, to be sent again.
C6_ResentAfterLostAck ==
    \A a \in Agents :
        (/\ EndedInFlight(a)
         /\ \E i \in DOMAIN rows : rows[i] = [cid |-> a, seq |-> Head(prePop[a]).payload.seq]
         /\ Head(prePop[a]).payload.seq \notin acked[a])
        => (queue[a] # <<>> /\ Head(queue[a]) = Head(prePop[a]))

\* ------------------------------------------------------------------ C7
\* C7: the Acks sent for a frame never outnumber the rows persisted for it.
C7_AckAfterInsert ==
    \A a \in Agents : \A n \in 1..MaxSamples :
        Count(sent, LAMBDA e : IsAckFor(e, a, n))
            <= Count(rows, LAMBDA r : IsRow(r, a, n))

\* A frame persisted twice and acknowledged once.
C7_Witness ==
    \E a \in Agents : \E n \in 1..MaxSamples :
        /\ Count(sent, LAMBDA e : IsAckFor(e, a, n)) = 1
        /\ Count(rows, LAMBDA r : IsRow(r, a, n)) = 2

\* ------------------------------------------------------------------ C8
\* The handler of the agent's connection has withheld the Ack for the frame
\* in flight and is back in its read; the agent is in its read.
AckWithheld(a) ==
    /\ pc[a] = "read"
    /\ [conn |-> stream[a], cmd |-> command[a].payload] \in failed
    /\ hpc[stream[a]] = "read"
    /\ c2s[stream[a]] = <<>>

\* C8: when the server has withheld the Ack, the agent's read ends (a read
\* failure or a timeout), which is what lets it requeue and resend the frame.
C8_AgentSeesFailure ==
    \A a \in Agents :
        AckWithheld(a) =>
            ENABLED (read_err(a) \/ read_zero(a) \/ read_response(a))

\* ------------------------------------------------------------------ C9
\* The server holds the agent's connection open and has not responded.
Blocked(a) ==
    /\ pc[a] \in {"read", "rw_read"}
    /\ net[stream[a]] = "up"
    /\ s2c[stream[a]] = <<>>
    /\ hpc[stream[a]] \in {"read", "insert", "write"}

\* C9: while the server holds the connection open and does not respond, the
\* agent stays in its read: send_queue does not return, nothing more is
\* written, the queue is not touched and no new cycle starts.
C9_NoReadTimeout ==
    [][\A a \in Agents :
         Blocked(a) =>
            /\ pc'[a] = pc[a]
            /\ result'[a] = result[a]
            /\ queue'[a] = queue[a]
            /\ wlog'[a] = wlog[a]
            /\ stream'[a] = stream[a]]_vars

\* The stall: the Ack was withheld, both ends wait in their reads, and a
\* sample waits in the channel for a cycle that cannot start.
C9_Witness ==
    \E a \in Agents :
        /\ Blocked(a)
        /\ AckWithheld(a)
        /\ chan[a] # <<>>

\* ------------------------------------------------------------------ C10
\* C10: RequestWork is written at most once per connection and is the last
\* thing written on it; when it has been written the queue is empty and
\* every frame written on that connection has been acknowledged; a cycle
\* that returned Ok wrote it exactly once, a cycle that ended with a frame
\* in flight did not write it.
C10_RequestWorkOnce ==
    \A a \in Agents :
        /\ \A c \in Conns :
              Count(wlog[a], LAMBDA e : IsRequestWorkOn(e, c)) <= 1
        /\ \A i \in DOMAIN wlog[a] :
              wlog[a][i].cmd.kind = "RequestWork" =>
                 /\ wlog[a][i].cmd = RequestWork(a)
                 /\ \A j \in DOMAIN wlog[a] :
                       /\ j > i => wlog[a][j].conn # wlog[a][i].conn
                       /\ (j < i /\ wlog[a][j].conn = wlog[a][i].conn) =>
                             wlog[a][j].cmd.seq \in acked[a]
        /\ pc[a] = "rw_read" =>
              /\ queue[a] = <<>>
              /\ command[a] = NoFrame
              /\ wlog[a][Len(wlog[a])] =
                    [conn |-> stream[a], cmd |-> RequestWork(a)]
        /\ (pc[a] = "recv" /\ result[a] = "Ok") =>
              Count(wlog[a], LAMBDA e : IsRequestWorkOn(e, stream[a])) = 1
        /\ EndedInFlight(a) =>
              Count(wlog[a], LAMBDA e : IsRequestWorkOn(e, stream[a])) = 0

\* A cycle that delivered two frames, then asked for work, and returned Ok.
C10_Witness ==
    \E a \in Agents :
        /\ pc[a] = "recv" /\ result[a] = "Ok"
        /\ Count(wlog[a], LAMBDA e : IsSubmitOn(e, stream[a])) = 2
        /\ Count(wlog[a], LAMBDA e : IsRequestWorkOn(e, stream[a])) = 1

\* ------------------------------------------------------------------ C11
\* C11: once the agent has read Task(Shutdown) it starts no further delivery
\* cycle: it never leaves its recv again.
C11_ShutsDown ==
    \A a \in Agents : tasked[a] => pc[a] = "recv"

\* ------------------------------------------------- the store's recorded calls

\* The calls on the store for one id, in order.
CallsOn(id) == SelectSeq(trace, LAMBDA e : e.id = id)

\* The positions in trace of the get_commands calls of connection c.
GetsOf(c) ==
    SelectSeq([i \in 1..Len(trace) |-> i],
              LAMBDA i : trace[i].op = "get" /\ trace[i].conn = c)

\* A command is pending for the id of the call at position k: an
\* add_command for it came before, and no get_commands for it since.
PendingAt(k) ==
    \E j \in 1..(k - 1) :
        /\ trace[j].op = "add" /\ trace[j].id = trace[k].id
        /\ \A m \in (j + 1)..(k - 1) :
               ~(trace[m].op = "get" /\ trace[m].id = trace[k].id)

Adds(id) == Count(trace, LAMBDA e : e.op = "add" /\ e.id = id)

\* Task responses for id: written, or decided and about to be written.
Tasks(id) ==
    Count(sent, LAMBDA e : e.resp = "Task" /\ e.cmd.cid = id)
        + Cardinality({c \in Conns : /\ hpc[c] = "write"
                                     /\ hresp[c] = "Task"
                                     /\ hcmd[c].cid = id})

\* ------------------------------------------------------------------ C12
\* C12: every RequestWork a handler has taken up gets at most one response,
\* exactly one once the handler is back at its read, and the n-th response
\* on a connection is Task if a command was pending for the id when the
\* store was consulted for the n-th request, NoWork otherwise.
C12_OneResponse ==
    \A c \in Peers :
        LET g == GetsOf(c) IN
        /\ Len(s2c[c]) <= Len(g)
        /\ hpc[c] = "read" => Len(s2c[c]) = Len(g)
        /\ \A n \in 1..Len(s2c[c]) :
               s2c[c][n] = IF PendingAt(g[n]) THEN "Task" ELSE "NoWork"

\* Three RequestWork(1) with one add_command(1) after the first, answered
\* NoWork, Task, NoWork.
C12_Witness ==
    /\ [i \in 1..Len(trace) |-> <<trace[i].op, trace[i].id>>]
           = <<(<<"get", 1>>), (<<"add", 1>>), (<<"get", 1>>), (<<"get", 1>>)>>
    /\ [i \in 1..Len(sent) |-> sent[i].resp] = <<"NoWork", "Task", "NoWork">>

\* ------------------------------------------------------------------ C13
\* C13: of two get_commands(id) that both returned a command, the later one
\* has an add_command(id) between the earlier one and itself.
C13_TakenOnce ==
    \A i, j \in 1..Len(trace) :
        /\ i < j
        /\ trace[i].op = "get" /\ trace[j].op = "get"
        /\ trace[i].id = trace[j].id
        /\ trace[i].ret # "None" /\ trace[j].ret # "None"
        => \E k \in (i + 1)..(j - 1) :
               trace[k].op = "add" /\ trace[k].id = trace[i].id

\* A get_commands that returned the command, a later one for the same id
\* that returned None.
C13_Witness ==
    \E i, j \in 1..Len(trace) :
        /\ i < j
        /\ trace[i].op = "get" /\ trace[j].op = "get"
        /\ trace[i].id = trace[j].id
        /\ trace[i].ret = "Shutdown" /\ trace[j].ret = "None"

\* ------------------------------------------------------------------ C14
\* C14: the Task responses for an id are never more than the add_command
\* calls for it; when two handlers hold a RequestWork(id) each and the calls
\* on the store for id were one add_command and then their two
\* get_commands, one of them answers Task and the other NoWork.
C14_TasksWithinAdds ==
    /\ \A id \in Ids : Tasks(id) <= Adds(id)
    /\ \A c, d \in Peers : \A id \in Ids :
           /\ c # d
           /\ hpc[c] = "write" /\ hpc[d] = "write"
           /\ hcmd[c] = RequestWork(id) /\ hcmd[d] = RequestWork(id)
           /\ [n \in 1..Len(CallsOn(id)) |-> CallsOn(id)[n].op]
                  = <<"add", "get", "get">>
           => {hresp[c], hresp[d]} = {"Task", "NoWork"}

\* Two handlers have consulted the store for the same id, one command was
\* pending, neither has written its response yet.
C14_Witness ==
    \E id \in Ids :
        /\ hpc[1] = "write" /\ hpc[2] = "write"
        /\ hcmd[1] = RequestWork(id) /\ hcmd[2] = RequestWork(id)
        /\ [n \in 1..Len(CallsOn(id)) |-> CallsOn(id)[n].op]
               = <<"add", "get", "get">>

\* ------------------------------------------------------------------ C15
\* C15: when the calls for an id go add_command, add_command, get_commands,
\* get_commands, the first get_commands returns what the second add_command
\* stored and the second returns None.
C15_Replaces ==
    \A id \in Ids :
        LET T == CallsOn(id) IN
        \A n \in 1..(Len(T) - 3) :
            /\ T[n].op = "add" /\ T[n + 1].op = "add"
            /\ T[n + 2].op = "get" /\ T[n + 3].op = "get"
            => T[n + 2].ret = T[n + 1].ret /\ T[n + 3].ret = "None"

C15_Witness ==
    \E id \in Ids :
        [n \in 1..Len(CallsOn(id)) |-> CallsOn(id)[n].op]
            = <<"add", "add", "get", "get">>

\* ------------------------------------------------------------------ C16
\* The INSERT for the i-th frame of connection c has been decided.
Handled(c, i) ==
    \/ i < Len(written[c])
    \/ i = Len(written[c]) /\ c2s[c] = <<>> /\ hpc[c] # "insert"

\* C16: whatever the interleaving of the handlers, every row holds the
\* collector id and the metric values of one frame a peer wrote, and every
\* frame whose INSERT succeeded has exactly one row, with its own collector
\* id and its own metric values.
C16_RowsOfOwnFrame ==
    /\ \A r \in DOMAIN rows :
           \E c \in Peers : \E i \in DOMAIN written[c] :
               written[c][i] = SubmitData(rows[r].cid, rows[r].seq)
    /\ \A c \in Peers : \A i \in DOMAIN written[c] :
           Handled(c, i) =>
               Count(rows, LAMBDA r : /\ r.cid = written[c][i].cid
                                      /\ r.seq = written[c][i].seq)
                   = IF [conn |-> c, cmd |-> written[c][i]] \in failed
                     THEN 0 ELSE 1

\* Both handlers have taken up a frame, of different collector ids, before
\* either has responded, and both INSERTs are done.
C16_Witness ==
    /\ hpc[1] = "write" /\ hpc[2] = "write"
    /\ hcmd[1].kind = "SubmitData" /\ hcmd[2].kind = "SubmitData"
    /\ hcmd[1].cid # hcmd[2].cid
    /\ Len(rows) = 2

\* --------------------------------------------------- the buffer's header
BufMagic == from_be_bytes(SubSeq(buffer, 1, 2))
BufVersion == from_be_bytes(SubSeq(buffer, 3, 4))
BufPayloadSize == from_be_bytes(SubSeq(buffer, 9, 12))

C18_ByteChangeDetected ==
    cstep = "done" /\ damage.op = "set" /\ damage.at > 12 => ~decoded.ok

\* The last byte of the CRC was changed, and decode_v1 failed.
C18_Witness ==
    /\ cstep = "done" /\ damage.op = "set" /\ damage.at = Len(buffer)
    /\ ~decoded.ok

\* ------------------------------------------------------------------ C19
\* C19: decode_v1 fails on every buffer whose magic is not 1234 or whose
\* version is not 1.
C19_MagicVersionChecked ==
    /\ cstep = "done"
    /\ Len(buffer) >= 4
    /\ BufMagic # MAGIC_NUMBER \/ BufVersion # VERSION_NUMBER
    => ~decoded.ok

\* The version is not 1, the payload and its CRC are those encode_v1 wrote,
\* and decode_v1 failed.
C19_Witness ==
    /\ cstep = "done" /\ damage.op = "set" /\ damage.at \in 3..4
    /\ BufMagic = MAGIC_NUMBER /\ BufVersion # VERSION_NUMBER
    /\ ~decoded.ok

\* ------------------------------------------------------------------ C20
\* C20: decode_v1 fails on every buffer shorter than 16 + payload_size
\* bytes, and on every buffer too short to hold the header.
C20_ShortBufferFails ==
    /\ cstep = "done"
    /\ \/ Len(buffer) < 12
       \/ BufPayloadSize = Huge
       \/ Len(buffer) < 16 + BufPayloadSize
    => ~decoded.ok

\* The payload_size field says more bytes than remain, in a buffer that is
\* whole; and decode_v1 failed.
C20_Witness ==
    /\ cstep = "done" /\ damage.op = "set" /\ damage.at \in 9..12
    /\ BufPayloadSize # Huge /\ Len(buffer) < 16 + BufPayloadSize
    /\ ~decoded.ok

\* ------------------------------------------------------------------ C21
\* The original statement: a frame that fails a check of decode_v1 on one
\* connection takes the whole server down, every handler with it.
C21_ServerDown ==
    \A c \in Peers : hpc[c] = "dead" => \A d \in Peers : hpc[d] = "dead"

\* C21: a frame that fails the magic, version or checksum assert of
\* decode_v1 yields no error value: the handler that read it ends there,
\* without a response. Only that handler ends: the other connections, their
\* handlers and what they have in flight are untouched, and a handler that
\* has a response ready can still write it.
C21_OnlyTheTaskEnds ==
    /\ [][\A c \in Peers : handler_read_corrupt(c) =>
             /\ hpc'[c] = "dead"
             /\ sent' = sent /\ s2c' = s2c /\ rows' = rows
             /\ \A d \in Peers \ {c} :
                    /\ hpc'[d] = hpc[d] /\ hcmd'[d] = hcmd[d]
                    /\ c2s'[d] = c2s[d] /\ net'[d] = net[d]]_vars
    /\ [](\A c, d \in Peers :
             hpc[c] = "dead" /\ hpc[d] = "write" => ENABLED handler_write(d))

\* One handler has ended on a damaged frame while the other has a response
\* ready.
C21_Witness ==
    /\ hpc[1] = "dead" /\ Len(written[1]) = 1
    /\ hpc[2] = "write" /\ hresp[2] = "Ack"

\* ------------------------------------------------------------------ C22
\* C22: when the INSERT for a SubmitData fails the handler sends nothing,
\* neither an Ack nor an error response, and does not close the connection:
\* it is back at the read of its loop, on the same connection, and no
\* response is ever sent for that frame on that connection.
C22_FailedInsertSilent ==
    /\ [][\A c \in Conns : handler_insert_fail(c) =>
             /\ sent' = sent /\ s2c' = s2c /\ rows' = rows
             /\ hpc'[c] = "read"
             /\ net'[c] = net[c] /\ c2s'[c] = c2s[c]]_vars
    /\ [](\A f \in failed :
             \A i \in DOMAIN sent :
                 ~(sent[i].conn = f.conn /\ sent[i].cmd = f.cmd))

\* The INSERT of the frame the agent waits on has failed: the handler is
\* back at its read, the connection is up and nothing was written on it.
C22_Witness ==
    \E c \in Conns :
        /\ hpc[c] = "read" /\ net[c] = "up" /\ cliOpen[c]
        /\ s2c[c] = <<>>
        /\ \E f \in failed : f.conn = c
        /\ \A i \in DOMAIN sent : sent[i].conn # c

MainCanMove(a) ==
    \/ ENABLED main_recv(a)
    \/ ENABLED (connect_ok(a) \/ connect_fail(a) \/ pop_front(a))
    \/ ENABLED (write_ok(a) \/ write_fail(a))
    \/ ENABLED (read_err(a) \/ read_zero(a) \/ read_response(a))
    \/ ENABLED (rw_write_ok(a) \/ rw_write_fail(a))
    \/ ENABLED (rw_read_fail(a) \/ rw_read_response(a))
    \/ /\ stream[a] \in Conns
       /\ ENABLED (\/ handler_read(stream[a])
                   \/ handler_insert_ok(stream[a])
                   \/ handler_insert_fail(stream[a])
                   \/ handler_write(stream[a]))

\* C24: every sample handed to the channel is eventually received, encoded
\* and pushed to the back of the queue, in the order of emission. As a
\* property of states: the samples that wait are in the order of emission
\* behind those already pushed, and while one waits main is never at a
\* point that neither it nor its handler can leave.
C24_EventuallyPushed ==
    \A a \in Agents :
        /\ \A i \in DOMAIN chan[a] :
               chan[a][i].seq = sampled[a] - Len(chan[a]) + i
        /\ chan[a] # <<>> => MainCanMove(a)

\* ------------------------------------------------------------------ C25
\* The collector ids of the frames the agent has built or written.
FrameIds(a) ==
    {chan[a][i].cid : i \in DOMAIN chan[a]}
        \cup {queue[a][i].payload.cid : i \in DOMAIN queue[a]}
        \cup {wlog[a][i].cmd.cid : i \in DOMAIN wlog[a]}

\* C25: get_uuid gives the agent one identity for good. A call that finds
\* no file generates an identity and writes it; a call that finds the file
\* generates nothing, leaves the file as it is and returns what the file
\* holds. So at most one identity is ever generated, every call returns the
\* same value, and that value is the collector id of every frame.
C25_StableIdentity ==
    /\ [](\A a \in Agents :
             /\ Len(generated[a]) <= 1
             /\ \A i \in DOMAIN returned[a] : returned[a][i] = returned[a][1]
             /\ returned[a] # <<>> =>
                    /\ file[a].exists
                    /\ parse(file[a].text) = returned[a][1]
                    /\ generated[a] # <<>> => generated[a][1] = returned[a][1]
                    /\ FrameIds(a) \subseteq {returned[a][1]}
             /\ uuid[a] # 0 => uuid[a] = returned[a][1])
    /\ [][\A a \in Agents : get_uuid(a) =>
             IF file[a].exists
             THEN generated' = generated /\ file' = file
             ELSE /\ Len(generated'[a]) = Len(generated[a]) + 1
                  /\ file'[a].exists]_vars

\* The first run found no file and generated the identity; the process was
\* started again, and frames were written in both runs.
C25_Witness ==
    \E a \in Agents :
        /\ Len(returned[a]) = 2 /\ Len(generated[a]) = 1
        /\ \E i, j \in DOMAIN wlog[a] :
               /\ wlog[a][i].conn = 1 /\ wlog[a][j].conn = 2
               /\ wlog[a][i].cmd.kind = "RequestWork"
               /\ wlog[a][j].cmd.kind = "SubmitData"

\* ------------------------------------------------------------------ C26
\* C26: the handler ends when its read returns zero bytes, and a handler
\* that has ended so stays ended and writes nothing more; a handler that
\* has written a response, or has withheld one after a failed INSERT, is
\* back at the read of its loop, on the same connection.
C26_ReadsUntilZero ==
    [][\A c \in Conns :
         /\ handler_read_zero(c) => hpc'[c] = "done"
         /\ hpc[c] = "done" =>
                /\ hpc'[c] = "done"
                /\ s2c'[c] = s2c[c] \/ s2c'[c] = <<>>
                /\ sent' = sent \/ sent'[Len(sent')].conn # c
         /\ handler_write(c) \/ handler_insert_fail(c) =>
                /\ hpc'[c] = "read"
                /\ net'[c] = net[c] /\ cliOpen'[c] = cliOpen[c]
                /\ c2s'[c] = c2s[c]]_vars

\* A handler has written two responses on its connection, one after the
\* other, and has ended on the zero-byte read that followed.
C26_Witness ==
    \E c \in Conns :
        /\ hpc[c] = "done"
        /\ \E i, j \in DOMAIN sent :
               i < j /\ sent[i].conn = c /\ sent[j].conn = c

C28_SamplerGoesOn ==
    /\ [][\A a \in Agents : collect_data_err(a) =>
             /\ errs'[a] = errs[a] + 1
             /\ sampled'[a] = sampled[a] + 1
             /\ chan' = chan /\ pc' = pc]_vars
    /\ [](\A a \in Agents :
             pc[a] = "panic" /\ sampled[a] < MaxSamples
                 => ENABLED collect_data_err(a))

\* Two hand-offs in a row have failed and were reported.
C28_Witness ==
    \E a \in Agents : errs[a] >= 2 /\ pc[a] = "panic"

\* ------------------------------------------------------------------ C29
\* C29: while the server cannot be reached nothing is dropped and the
\* queue is not capped: a sample received puts exactly one frame, its own,
\* at the back of the queue, and a cycle that fails to connect leaves the
\* queue as it is; so while no connection has ever been made the queue
\* holds one frame for every sample received, in the order of emission.
C29_OutageKeepsAll ==
    /\ [][\A a \in Agents :
             /\ main_recv(a) =>
                    queue'[a] = Append(queue[a], encode_v1(Head(chan[a])))
             /\ connect_fail(a) => queue'[a] = queue[a]]_vars
    /\ [](nconn = 0 =>
             \A a \in Agents :
                 /\ Len(queue[a]) = sampled[a] - Len(chan[a])
                 /\ \A i \in DOMAIN queue[a] :
                        queue[a][i] = encode_v1(SubmitData(uuid[a], i)))

\* Every cycle so far has failed to connect, and the queue holds the frames
\* of three samples.
C29_Witness ==
    \E a \in Agents :
        /\ nconn = 0 /\ cause[a] = "connect"
        /\ Len(queue[a]) >= 3

\* ------------------------------------------------------------------ C30
\* C30: for each of the three responses, Ack, NoWork and Task(Shutdown),
\* decoding the bytes encode_response_v1 made gives the response back, and
\* the bytes of one response are the bytes of no other.
C30_ResponseRoundTrip ==
    /\ cstep = "done" /\ damage = NoDamage
           => decoded = [ok |-> TRUE, response |-> given]
    /\ cstep \in {"wire", "done"} /\ damage = NoDamage
           => \A r \in Responses : encode_response_v1(r) = buffer => r = given

\* Task(Shutdown) has been encoded and decoded, its eight bytes untouched.
C30_Witness ==
    /\ cstep = "done" /\ damage = NoDamage
    /\ given = Task("Shutdown") /\ Len(buffer) = 8
    /\ decoded.ok

\* ------------------------------------------------------------------ C31
\* C31: the buffer encode_v1 makes is magic(2) | version(2) | timestamp(4)
\* | payload_size(4) | payload | crc32(4), the integers most significant
\* byte first: magic 1234 (bytes 4, 210), version 1 (bytes 0, 1), the
\* timestamp stamped, payload_size the length of the serialized command,
\* the crc that of the payload alone, and 16 + payload_size bytes in all.
C31_FrameLayout ==
    cstep = "wire" /\ damage = NoDamage =>
        LET n == Len(serialize(given)) IN
        /\ Len(buffer) = 16 + n
        /\ SubSeq(buffer, 1, 4) = <<4, 210, 0, 1>>
        /\ BufMagic = 1234 /\ BufVersion = 1
        /\ from_be_bytes(SubSeq(buffer, 5, 8)) = stamped
        /\ SubSeq(buffer, 9, 12) = <<0, 0, 0, n>>
        /\ n = IF given.kind = "SubmitData" THEN 40 ELSE 20
        /\ SubSeq(buffer, 13, 12 + n) = serialize(given)
        /\ SubSeq(buffer, 13 + n, 16 + n)
               = Reverse(hash(SubSeq(buffer, 13, 12 + n)))
        /\ SubSeq(buffer, 13 + n, 16 + n)
               # Reverse(hash(SubSeq(buffer, 1, 12 + n)))

\* A SubmitData has been encoded: 56 bytes, not yet decoded.
C31_Witness ==
    /\ cstep = "wire" /\ damage = NoDamage
    /\ given.kind = "SubmitData" /\ Len(buffer) = 56

\* ------------------------------------------------------------------ C32
\* C32: commands are framed and responses are not. The bytes of a response
\* are the serialized variant and nothing else: the index of the variant
\* and, for Task, the index of the task; no magic number, version,
\* timestamp, size or checksum, so they are no frame to decode_v1. And
\* decode_response_v1 checks nothing: bytes that were changed on the way are
\* taken for the response they spell. A command is always inside the
\* header and the checksum, and a change of a byte of it, the timestamp's
\* apart, is found out.
C32_OnlyCommandsFramed ==
    /\ cstep = "wire" /\ damage = NoDamage =>
           IF given \in Responses
           THEN /\ buffer = IF given = Ack THEN <<0, 0, 0, 0>>
                            ELSE IF given = NoWork THEN <<1, 0, 0, 0>>
                            ELSE <<2, 0, 0, 0, 0, 0, 0, 0>>
                /\ decode_v1_bytes(buffer) = Panic
           ELSE /\ BufMagic = MAGIC_NUMBER /\ BufVersion = VERSION_NUMBER
                /\ Len(buffer) = 16 + BufPayloadSize
                /\ SubSeq(buffer, 13, 12 + BufPayloadSize) = serialize(given)
                /\ decode_v1_bytes(buffer).ok
    /\ cstep = "done" /\ damage.op = "set" =>
           IF given \in Responses
           THEN SubSeq(buffer, 1, 4) \in {<<0, 0, 0, 0>>, <<1, 0, 0, 0>>}
                    => decoded.ok /\ decoded.response # given
           ELSE damage.at \notin 5..8 => decoded = Panic

\* An Ack whose first byte was changed on the way has been decoded as
\* NoWork.
C32_Witness ==
    /\ cstep = "done" /\ given = Ack /\ damage = [op |-> "set", at |-> 1]
    /\ decoded = [ok |-> TRUE, response |-> NoWork]

\* ------------------------------------------------------------------ C33
\* The positions in written[c] of the frames answered on connection c, in
\* the order of the responses.
RECURSIVE AnsweredOn(_, _)
AnsweredOn(c, n) ==
    IF n = 0 THEN <<>>
    ELSE IF sent[n].conn = c
         THEN Append(AnsweredOn(c, n - 1),
                     CHOOSE i \in DOMAIN written[c] : written[c][i] = sent[n].cmd)
         ELSE AnsweredOn(c, n - 1)

\* C33: on one connection the handler takes up the frames in the order of
\* their arrival, one at a time, and the response to a frame, if there is
\* one, is written before the next frame is read: the responses on a
\* connection are in the order of their frames, the frame in hand is later
\* than every frame answered and earlier than every frame that waits, and
\* no frame is read while one is in hand.
C33_InArrivalOrder ==
    \A c \in Peers :
        LET a == AnsweredOn(c, Len(sent))
            inHand == {i \in DOMAIN written[c] : written[c][i] = hcmd[c]}
            waiting == {i \in DOMAIN written[c] :
                           \E j \in DOMAIN c2s[c] :
                               c2s[c][j] = encode_v1(written[c][i])}
        IN  /\ \A i, j \in DOMAIN a : i < j => a[i] < a[j]
            /\ \A i \in DOMAIN a : \A h \in inHand \cup waiting : a[i] < h
            /\ \A h \in inHand : \A w \in waiting : h < w
            /\ hpc[c] \in {"insert", "write"} =>
                   ~ENABLED handler_read(c) /\ ~ENABLED handler_read_coalesced(c)

\* Three frames were written ahead on one connection; the first two have
\* been answered, in their order, while the third waited.
C33_Witness ==
    /\ Len(written[1]) = 3
    /\ Len(sent) = 2
    /\ sent[1].cmd = written[1][1] /\ sent[2].cmd = written[1][2]
    /\ Len(c2s[1]) = 1

\* ------------------------------------------------------------------ C34
\* C34: a delivery cycle makes one connection attempt, at its start, and
\* what it writes, frames and RequestWork alike, goes over the connection
\* that attempt made: the agent's stream and the number of connections
\* change only at the attempt, an attempt is made only by a cycle that a
\* received sample has just begun and is never repeated within the cycle,
\* and every write is on the agent's stream. A failed attempt returns
\* UnableToConnect and touches neither the queue nor the wire: nothing has
\* been popped and nothing sent.
C34_OneAttemptPerCycle ==
    /\ [][\A a \in Agents :
             /\ stream'[a] # stream[a] => pc[a] = "connect"
             /\ nconn' # nconn =>
                    \E b \in Agents : pc[b] = "connect" /\ pc'[b] = "pop"
                                        /\ stream'[b] = nconn'
             /\ pc[a] = "connect" /\ pc'[a] # pc[a] => pc'[a] \in {"pop", "recv"}
             /\ pc'[a] = "connect" /\ pc[a] # pc'[a] => pc[a] = "recv"
             /\ wlog'[a] # wlog[a] =>
                    /\ Len(wlog'[a]) = Len(wlog[a]) + 1
                    /\ wlog'[a][Len(wlog'[a])].conn = stream[a]
                    /\ stream[a] \in 1..nconn
             /\ connect_fail(a) =>
                    /\ result'[a] = "UnableToConnect"
                    /\ queue' = queue /\ command' = command
                    /\ wlog' = wlog /\ c2s' = c2s /\ nconn' = nconn]_vars
    /\ [](\A a \in Agents :
             cause[a] = "connect" =>
                 /\ result[a] = "UnableToConnect"
                 /\ prePop[a] = <<>> /\ command[a] = NoFrame
                 /\ queue[a] # <<>>)

\* One cycle has sent its frame and its RequestWork over one connection,
\* and a later cycle could not connect: its frame is in the queue.
C34_Witness ==
    \E a \in Agents :
        /\ cause[a] = "connect" /\ queue[a] # <<>>
        /\ Len(wlog[a]) >= 2
        /\ wlog[a][1].conn = wlog[a][2].conn
        /\ wlog[a][1].cmd.kind = "SubmitData"
        /\ wlog[a][2].cmd.kind = "RequestWork"

\* ------------------------------------------------------------------ C35
\* What is under way on connection c: frames not yet read by the handler,
\* the frame the handler has in hand, responses not yet read by the agent.
UnderWay(c) ==
    Len(c2s[c]) + (IF hpc[c] \in {"insert", "write"} THEN 1 ELSE 0) + Len(s2c[c])

\* C35: the agent is in lock step with the server: on every connection at
\* most one frame is sent and not yet answered, a frame is about to be
\* written only when nothing is under way on the agent's connection, and
\* so no read of the server can return two frames at once.
C35_LockStep ==
    [](/\ \A c \in Conns :
              /\ UnderWay(c) <= 1
              /\ Len(c2s[c]) <= 1
              /\ ~ENABLED handler_read_coalesced(c)
       /\ \A a \in Agents :
              pc[a] \in {"pop", "write", "rw_write"} => UnderWay(stream[a]) = 0)

\* Two frames of one cycle went over one connection: the first has been
\* answered and the second is on its way, alone.
C35_Witness ==
    \E a \in Agents :
        /\ pc[a] = "read"
        /\ Len(wlog[a]) = 2
        /\ wlog[a][1].conn = wlog[a][2].conn
        /\ wlog[a][1].cmd.kind = "SubmitData" /\ wlog[a][2].cmd.kind = "SubmitData"
        /\ c2s[stream[a]] = <<encode_v1(wlog[a][2].cmd)>>
        /\ Len(sent) = 1

\* ------------------------------------------------------------------ C36
\* C36: every response the server has written answers a frame that was
\* written to it on that connection, and no frame is answered twice; a
\* SubmitData frame is answered with Ack, or with nothing when its INSERT
\* failed, and a RequestWork frame with Task or NoWork; a connection never
\* carries more responses than the server wrote for its frames.
C36_ResponsesMatchFrames ==
    [](/\ \A i \in DOMAIN sent :
              /\ sent[i].cmd.kind = "SubmitData" => sent[i].resp = "Ack"
              /\ sent[i].cmd.kind = "RequestWork" => sent[i].resp \in {"Task", "NoWork"}
              /\ sent[i].cmd.kind \in {"SubmitData", "RequestWork"}
              /\ \E a \in Agents : \E j \in DOMAIN wlog[a] :
                     wlog[a][j] = [conn |-> sent[i].conn, cmd |-> sent[i].cmd]
              /\ \A k \in DOMAIN sent :
                     k # i => <<sent[k].conn, sent[k].cmd>> # <<sent[i].conn, sent[i].cmd>>
              /\ [conn |-> sent[i].conn, cmd |-> sent[i].cmd] \notin failed
       /\ \A f \in failed : f.cmd.kind = "SubmitData"
       /\ \A c \in Conns :
              /\ Len(s2c[c]) <= Cardinality({i \in DOMAIN sent : sent[i].conn = c})
              /\ Cardinality({i \in DOMAIN sent : sent[i].conn = c})
                     <= Cardinality({w \in UNION {{wlog[a][j] : j \in DOMAIN wlog[a]} : a \in Agents} :
                                        w.conn = c})
              /\ hpc[c] = "write" =>
                     hresp[c] \in (IF hcmd[c].kind = "SubmitData"
                                   THEN {"Ack"} ELSE {"Task", "NoWork"}))

\* The server has answered a SubmitData with Ack and a RequestWork with
\* Task, and has left a SubmitData whose INSERT failed without a response.
C36_Witness ==
    /\ \E i \in DOMAIN sent : sent[i].cmd.kind = "SubmitData" /\ sent[i].resp = "Ack"
    /\ \E i \in DOMAIN sent : sent[i].cmd.kind = "RequestWork" /\ sent[i].resp = "Task"
    /\ failed # {}

\* ------------------------------------------------------------------ C37
\* C37: the store changes in two ways only: add_command(id, _) puts a
\* command in, and the handler of a RequestWork(id) takes it out as it
\* makes up the Task response. No other step puts a command into the
\* store: not the failure of the write of the response, not the loss of
\* the connection, not the return of the agent that did not read it. A
\* RequestWork(id) that finds nothing for id is answered NoWork.
C37_TakenForGood ==
    [][/\ \A id \in Ids :
              COMMANDS'[id] # COMMANDS[id] =>
                  \/ add_command(id)
                  \/ \E c \in Conns :
                         /\ hpc[c] = "read" /\ hpc'[c] = "write"
                         /\ hcmd'[c].kind = "RequestWork" /\ hcmd'[c].cid = id
                         /\ hresp'[c] = "Task"
                         /\ COMMANDS'[id] = "None"
       /\ \A c \in Conns :
              /\ handler_write_err(c) \/ conn_reset(c) => COMMANDS' = COMMANDS
              /\ hpc[c] = "write" /\ hresp[c] = "Task" /\ hpc'[c] # "write" =>
                     COMMANDS' = COMMANDS
              /\ (/\ hpc[c] = "read" /\ hpc'[c] = "write"
                  /\ hcmd'[c].kind = "RequestWork"
                  /\ COMMANDS[hcmd'[c].cid] = "None")
                     => hresp'[c] = "NoWork" /\ COMMANDS' = COMMANDS
       /\ \A a \in Agents :
              pc[a] = "rw_read" /\ pc'[a] # pc[a] => COMMANDS' = COMMANDS]_vars

\* A Task was written and never read by its agent; the store is empty for
\* the id and the agent's next RequestWork was answered NoWork.
C37_Witness ==
    \E i, j \in DOMAIN sent :
        /\ i < j
        /\ sent[i].resp = "Task" /\ sent[j].resp = "NoWork"
        /\ sent[i].cmd = sent[j].cmd
        /\ COMMANDS[sent[i].cmd.cid] = "None"
        /\ \A a \in Agents : ~tasked[a]

\* ------------------------------------------------------------------ C38
\* The frames of SubmitData that are anywhere on the agent's side or on
\* their way to the server.
FramesAbout(a) ==
    {queue[a][i] : i \in DOMAIN queue[a]}
        \cup (IF command[a] = NoFrame THEN {} ELSE {command[a]})
        \cup {f \in UNION {{c2s[c][i] : i \in DOMAIN c2s[c]} : c \in Conns} :
                 f.payload.kind = "SubmitData" /\ f.payload.cid = uuid[a]}

\* C38: encode_v1 is called once for each sample, when main takes it from
\* the channel, and the frame it made then, timestamp included, is the
\* frame that is queued, popped, pushed back and written, however often
\* it is sent again; every row stored for the frame has in `received`
\* the timestamp of that one encoding, whatever the clock shows when the
\* frame is sent again or when the row is inserted.
C38_StampedOnce ==
    /\ \A a \in Agents :
           /\ Len(encoded[a]) = sampled[a] - Len(chan[a])
           /\ \A i \in DOMAIN encoded[a] :
                  /\ encoded[a][i].cmd = SubmitData(uuid[a], i)
                  /\ encoded[a][i].frame.payload = encoded[a][i].cmd
                  /\ encoded[a][i].frame.timestamp <= now
           /\ \A f \in FramesAbout(a) :
                  /\ f.payload.seq \in DOMAIN encoded[a]
                  /\ f = encoded[a][f.payload.seq].frame
    /\ Len(received) = Len(rows)
    /\ \A i \in DOMAIN rows :
           /\ rows[i].cid \in Agents
           /\ rows[i].seq \in DOMAIN encoded[rows[i].cid]
           /\ received[i] = encoded[rows[i].cid][rows[i].seq].frame.timestamp

\* A frame was stored twice, the second time from a resend after the clock
\* had moved on, and both rows carry the second of its encoding; a later
\* frame carries a later one.
C38_Witness ==
    \E i, j \in DOMAIN rows :
        /\ i < j
        /\ rows[i] = rows[j]
        /\ received[i] = received[j]
        /\ received[i] < now
        /\ \E a \in Agents : \E k \in DOMAIN encoded[a] :
               encoded[a][k].frame.timestamp > received[i]

====
